---- MODULE Spec2Model ----
(***************************************************************************)
(* Model of the goeditor backend: the undo/redo History log                *)
(* (backend/history.go) and the SearchManager (backend/search.go).         *)
(***************************************************************************)
EXTENDS Integers, Sequences, FiniteSets, TLC

(***************************************************************************)
(* Bounds of the model.                                                    *)
(***************************************************************************)
\* number of Record* calls explored in one run of the History
MaxCalls == 3
\* largest argument handed to NewHistoryWithSize / SetMaxSize
MaxSizeArg == 2
\* longest text handed to Find / Replace, in characters
MaxTextLen == 3
\* longest text with characters outside ASCII handed to them, in characters
MaxRunes == 2
\* longest content handed to the IndentationManager at the start, in characters
MaxIndentLen == 3
\* longest content the editor holds after a transformation, in characters
MaxBufferLen == 5
\* longest text the Editor's widget holds after an Undo or Redo, in characters
MaxEditorLen == 4

(***************************************************************************)
(* Program constants.                                                      *)
(***************************************************************************)
\* history.go:55 and history.go:63: the default maximum history size
DefaultMaxSize == 100
\* the zero time.Time, for which Timestamp.IsZero() holds
ZeroTime == 0

VARIABLES
    \* ---- backend.History (history.go:43-48)
    undoStack,      \* []Operation, most recent last
    redoStack,      \* []Operation, most recent last
    maxSize,        \* int
    enabled,        \* bool
    \* ---- the environment of the History and the observation of its calls
    now,            \* the clock time.Now() reads; it advances at every Record* call
    last,           \* the last call: its name, its argument, what it returned
    snap,           \* the stacks before the Undo that was the last call, or the one before a Redo
    script,         \* the calls made so far, while they are Record*, then Undo*, then Redo*
    dropped,        \* timestamps of the operations handed to Record* while disabled
    cleared,        \* timestamps of the operations the stacks held when Clear was called
    returned,       \* the slice GetOperationHistory last handed to the caller
    \* ---- backend.SearchManager (search.go:10-16)
    currentPattern, \* string
    matches,        \* []Match
    currentIndex,   \* int, -1: no current match
    options,        \* SearchOptions
    lastSearchText, \* string
    \* ---- the caller of the SearchManager and the observation of its calls
    content,        \* the editor's text, which the caller hands to Find and Replace
    slast,          \* the last call: its name, its arguments, what it returned
    \* ---- ui.IndentationManager (indentation.go:9-13); autoIndent, which only
    \* HandleEnterKey reads, is left out
    tabSize,        \* int
    useSpaces,      \* bool
    \* ---- the caller of the IndentationManager and the observation of its calls
    buffer,         \* the editor's content, handed to the calls and replaced by their result
    trip,           \* the content before an IndentLines or ConvertTabsToSpaces call
                    \* and whether the opposite call came right after it
    \* ---- ui.Editor (editor.go), whose History is the one above
    editorText,     \* TextWidget.Text
    edit,           \* the last edit or file call of the Editor: the text before
                    \* and after it, and the Undo and Redo calls right after it
    \* ---- backend.ConfigManager (config.go)
    config,         \* *Configuration
    \* ---- the environment of the ConfigManager and the observation of its calls
    configFile,     \* the file at configPath: none, one that does not parse, or a document
    cload           \* the last call, and the document it read if it was a Load

hvars == <<undoStack, redoStack, maxSize, enabled, now, last, snap, script, dropped,
          cleared, returned>>
svars == <<currentPattern, matches, currentIndex, options, lastSearchText,
           content, slast>>
ivars == <<tabSize, useSpaces, buffer, trip>>
evars == <<editorText, edit>>
cvars == <<config, configFile, cload>>
vars == <<hvars, svars, ivars, evars, cvars>>

(***************************************************************************)
(* Values.                                                                 *)
(***************************************************************************)
\* history.go:10-17
OperationType == {"Insert", "Delete", "Replace"}

\* state.go: Position{Line, Column}, 1-based
Positions == {[Line |-> 1, Column |-> 1]}

\* texts the recorded edits carry
Texts == {"a"}

\* history.go:34-40
Operation(t, p, old, new, ts) ==
    [Type |-> t, Position |-> p, OldText |-> old, NewText |-> new, Timestamp |-> ts]

\* The operations callers hand to RecordOperation directly: well-formed ones of
\* each type, with the timestamp unset or already set by the caller, and one
\* that breaks the type's shape (RecordOperation does not look at it).
OpInputs ==
    { Operation(x[1], p, x[2], x[3], ts) :
        x \in { <<"Insert", "", "a">>, <<"Delete", "a", "">>,
                <<"Replace", "a", "a">>, <<"Insert", "a", "">> },
        p \in Positions, ts \in {ZeroTime, now} }

\* a *Operation result: <<>> is nil, <<op>> points to a copy of op
Nil_ZeroOperation == <<Operation("Insert", [Line |-> 0, Column |-> 0], "", "", ZeroTime)>>
Nil == <<>>
Ptr(op) == <<op>>

\* a slice in the caller's hands: its elements, and whether its backing array
\* is the one h.undoStack uses. NoSlice: the caller holds none.
NoSlice == [ops |-> <<>>, shared |-> FALSE]

\* config_test.go:558: the text the caller writes into an element of its slice
Modified == "modified"

NoSnap == [undo |-> <<>>, redo |-> <<>>, ret |-> Nil, at |-> "none"]
NoScript == [phase |-> "other", log |-> <<>>, undone |-> 0, redone |-> 0]

(***************************************************************************)
(* The pieces of the History's methods.                                    *)
(***************************************************************************)
\* history.go:62-64: NewHistoryWithSize substitutes the default for size <= 0
CtorSize(size) == IF size <= 0 THEN DefaultMaxSize ELSE size

\* history.go:75: RecordOperation returns at once while disabled
RecordingAllowed_Always == TRUE
RecordingAllowed == enabled

\* history.go:80-82: stamp the operation if the caller did not
Stamp(op) == IF op.Timestamp = ZeroTime THEN [op EXCEPT !.Timestamp = now] ELSE op

\* history.go:88 and 180-181: stack[:0]
Truncate_Keep(stack) == stack
Truncate_ToOne(stack) == IF stack = <<>> THEN <<>> ELSE <<stack[Len(stack)]>>
Truncate(stack) == <<>>

\* history.go:93-94: copy(stack, stack[1:]); stack = stack[:len-1]
DropOldest_Newest(stack) == SubSeq(stack, 1, Len(stack) - 1)
DropOldest(stack) == Tail(stack)

\* history.go:151-152 and 168-169: stack[len(stack)-1]
Top_Bottom(stack) == stack[1]
Top(stack) == stack[Len(stack)]

\* history.go:153 and 170: stack[:lastIndex]
Pop_Front(stack) == Tail(stack)
Pop(stack) == SubSeq(stack, 1, Len(stack) - 1)

\* history.go:206: SetMaxSize rejects maxSize <= 0
RejectedSize_OnlyNegative(n) == n < 0
RejectedSize(n) == n <= 0

\* history.go:214-216: copy(stack, stack[excess:]); stack = stack[:maxSize]
TrimTo_KeepOldest(stack, n) == SubSeq(stack, 1, n)
TrimTo(stack, n) == SubSeq(stack, Len(stack) - n + 1, Len(stack))

\* history.go:135-137
CanUndo == Len(undoStack) > 0
\* history.go:140-142
CanRedo == Len(redoStack) > 0
\* history.go:235-239: a copy of the undo stack
GetOperationHistory == [i \in 1..Len(undoStack) |-> undoStack[i]]

\* history.go:236-238: the slice the caller receives, made anew and filled by
\* copy; Operation holds values only, so no element refers to the stack's
MakeCopy_SameArray(ops) == [ops |-> ops, shared |-> TRUE]
MakeCopy(ops) == [ops |-> ops, shared |-> FALSE]

(***************************************************************************)
(* Observation of the calls.                                               *)
(***************************************************************************)
Called(name, arg, ret) ==
    last' = [call |-> name, arg |-> arg, ret |-> ret,
             undoBefore |-> Len(undoStack), redoBefore |-> Len(redoStack)]

\* a Record* call of the script: only Record* calls so far, on an enabled History
ScriptRecord(op) ==
    script' = IF script.phase = "record" /\ enabled
              THEN [script EXCEPT !.log = Append(@, op)]
              ELSE NoScript

ScriptUndo(ret) ==
    script' = IF script.phase \in {"record", "undo"} /\ ret # Nil
                 /\ Len(script.log) <= maxSize
              THEN [script EXCEPT !.phase = "undo", !.undone = @ + 1]
              ELSE NoScript

ScriptRedo(ret) ==
    script' = IF script.phase \in {"undo", "redo"} /\ ret # Nil
              THEN [script EXCEPT !.phase = "redo", !.redone = @ + 1]
              ELSE NoScript

(***************************************************************************)
(* History: construction.                                                  *)
(***************************************************************************)
Fresh(size, call, arg) ==
    /\ undoStack = <<>>
    /\ redoStack = <<>>
    /\ maxSize = size
    /\ enabled = TRUE
    /\ now = 1
    /\ last = [call |-> call, arg |-> arg, ret |-> Nil,
               undoBefore |-> 0, redoBefore |-> 0]
    /\ snap = NoSnap
    /\ script = [phase |-> "record", log |-> <<>>, undone |-> 0, redone |-> 0]
    /\ dropped = {}
    /\ cleared = {}
    /\ returned = NoSlice

\* history.go:51-58
NewHistory == Fresh(DefaultMaxSize, "NewHistory", 0)

\* history.go:61-71
NewHistoryWithSize(size) == Fresh(CtorSize(size), "NewHistoryWithSize", size)

HInit ==
    \/ NewHistory
    \/ \E size \in -1..MaxSizeArg : NewHistoryWithSize(size)

(***************************************************************************)
(* History: the methods.                                                   *)
(***************************************************************************)
\* history.go:74-96. RecordInsert, RecordDelete and RecordReplace build their
\* operation and return through RecordOperation, which is the call observed.
Record(call, op) ==
    /\ now <= MaxCalls
    /\ now' = now + 1
    /\ IF ~RecordingAllowed
       THEN /\ UNCHANGED <<undoStack, redoStack>>
            /\ dropped' = dropped \cup {Stamp(op).Timestamp}
       ELSE LET pushed == Append(undoStack, Stamp(op))
            IN /\ undoStack' = IF Len(pushed) > maxSize
                               THEN DropOldest(pushed) ELSE pushed
               /\ redoStack' = Truncate(redoStack)
               /\ UNCHANGED dropped
    /\ Called(call, 0, Nil)
    /\ ScriptRecord(Stamp(op))
    /\ snap' = NoSnap
    /\ UNCHANGED <<maxSize, enabled, cleared, returned>>

\* history.go:74-96
RecordOperation(op) == Record("RecordOperation", op)


\* history.go:99-108
RecordInsert(position, text) ==
    Record("RecordOperation", Operation("Insert", position, "", text, now))

\* history.go:111-120
RecordDelete(position, text) ==
    Record("RecordOperation", Operation("Delete", position, text, "", now))

\* history.go:123-132
RecordReplace(position, oldText, newText) ==
    Record("RecordOperation", Operation("Replace", position, oldText, newText, now))

\* history.go:145-159
Undo ==
    /\ IF ~CanUndo
       THEN /\ UNCHANGED <<undoStack, redoStack>>
            /\ Called("Undo", 0, Nil)
            /\ ScriptUndo(Nil)
            /\ snap' = NoSnap
       ELSE LET op == Top(undoStack)
            IN /\ undoStack' = Pop(undoStack)
               /\ redoStack' = Append(redoStack, op)
               /\ Called("Undo", 0, Ptr(op))
               /\ ScriptUndo(Ptr(op))
               /\ snap' = [undo |-> undoStack, redo |-> redoStack,
                           ret |-> Ptr(op), at |-> "undone"]
    /\ UNCHANGED <<maxSize, enabled, now, dropped, cleared, returned>>

\* history.go:162-176
Redo ==
    /\ IF ~CanRedo
       THEN /\ UNCHANGED <<undoStack, redoStack>>
            /\ Called("Redo", 0, Nil)
            /\ ScriptRedo(Nil)
            /\ snap' = NoSnap
       ELSE LET op == Top(redoStack)
            IN /\ redoStack' = Pop(redoStack)
               /\ undoStack' = Append(undoStack, op)
               /\ Called("Redo", 0, Ptr(op))
               /\ ScriptRedo(Ptr(op))
               /\ snap' = IF snap.at = "undone"
                          THEN [snap EXCEPT !.at = "redone"] ELSE NoSnap
    /\ UNCHANGED <<maxSize, enabled, now, dropped, cleared, returned>>

\* history.go:179-182
Clear ==
    /\ undoStack' = Truncate(undoStack)
    /\ redoStack' = Truncate(redoStack)
    /\ Called("Clear", 0, Nil)
    /\ script' = NoScript
    /\ snap' = NoSnap
    /\ cleared' = cleared \cup {undoStack[i].Timestamp : i \in 1..Len(undoStack)}
                          \cup {redoStack[i].Timestamp : i \in 1..Len(redoStack)}
    /\ UNCHANGED <<maxSize, enabled, now, dropped, returned>>

\* history.go:195-197
SetEnabled(b) ==
    /\ enabled' = b
    /\ Called("SetEnabled", b, Nil)
    /\ script' = NoScript
    /\ snap' = NoSnap
    /\ UNCHANGED <<undoStack, redoStack, maxSize, now, dropped, cleared, returned>>

\* history.go:205-218
SetMaxSize(n) ==
    /\ IF RejectedSize(n)
       THEN UNCHANGED <<maxSize, undoStack>>
       ELSE /\ maxSize' = n
            /\ undoStack' = IF Len(undoStack) > n THEN TrimTo(undoStack, n)
                            ELSE undoStack
    /\ Called("SetMaxSize", n, Nil)
    /\ script' = NoScript
    /\ snap' = NoSnap
    /\ UNCHANGED <<redoStack, enabled, now, dropped, cleared, returned>>

\* history.go:235-239, the call
CallGetOperationHistory ==
    /\ returned' = MakeCopy(GetOperationHistory)
    /\ Called("GetOperationHistory", 0, Nil)
    /\ script' = NoScript
    /\ snap' = NoSnap
    /\ UNCHANGED <<undoStack, redoStack, maxSize, enabled, now, dropped, cleared>>

\* config_test.go:558: the caller writes into element i (0-based) of the slice
\* it was handed. The write lands in the slice's backing array, and so in the
\* undo stack too if that array is the stack's.
MutateReturned(i) ==
    /\ i < Len(returned.ops)
    /\ returned.ops[i + 1].NewText # Modified
    /\ returned' = [returned EXCEPT !.ops[i + 1].NewText = Modified]
    /\ undoStack' = IF returned.shared /\ i < Len(undoStack)
                    THEN [undoStack EXCEPT ![i + 1].NewText = Modified]
                    ELSE undoStack
    /\ UNCHANGED <<redoStack, maxSize, enabled, now, last, snap, script, dropped,
                   cleared>>

(***************************************************************************)
(* Strings. A Go string is modelled as the sequence of its bytes. The ASCII *)
(* characters used are one byte each and named by themselves; the bytes of *)
(* the other characters are named by their hexadecimal value.              *)
(***************************************************************************)
Chars == {"a", "A", " ", "\n"}

\* UTF-8 of U+023A (LATIN CAPITAL LETTER A WITH STROKE), of its lower case
\* U+2C65, and of U+FFFD (utf8.RuneError)
UpperStroke == <<"C8", "BA">>
LowerStroke == <<"E2", "B1", "A5">>
RuneError == <<"EF", "BF", "BD">>

Letters == {"a", "A"}
Digits == {"0", "1", "2", "3", "4", "5", "6", "7", "8", "9"}

SeqsUpTo(S, n) == UNION {[1..k -> S] : k \in 0..n}

\* the texts the editor may hold when the search starts
TextInputs == SeqsUpTo(Chars, MaxTextLen)

\* the characters of the texts that are not all ASCII, each as its UTF-8 bytes
RuneInputs == {<<"a">>, <<" ">>, UpperStroke, LowerStroke}

\* the texts of up to n of these characters
RECURSIVE RuneTexts(_)
RuneTexts(n) ==
    IF n = 0 THEN {<<>>}
    ELSE RuneTexts(n - 1) \cup {t \o c : t \in RuneTexts(n - 1), c \in RuneInputs}

RuneTextInputs == RuneTexts(MaxRunes)

\* the patterns: empty, one (upper case) character, one that overlaps itself,
\* and one that is no regular expression (and occurs in no text)
PatternInputs == {<<>>, <<"A">>, <<"a", "a">>, <<"(">>}

\* the replacement strings (none holds a '$')
ReplacementInputs == {<<>>, <<"a">>}

\* search.go:26-31
SearchOptions ==
    [CaseSensitive : BOOLEAN, WholeWord : BOOLEAN,
     RegularExpression : BOOLEAN, WrapAround : BOOLEAN]

\* the options handed to SetOptions: every way to search with wrap-around, and
\* the literal and the regular-expression search without
OptionInputs ==
    {o \in SearchOptions :
        o.WrapAround \/ (~o.CaseSensitive /\ ~o.WholeWord)}

\* s[from:], from 0-based
SliceFrom(s, from) == SubSeq(s, from + 1, Len(s))
\* s[from:to], 0-based, to exclusive
Slice(s, from, to) == SubSeq(s, from + 1, to)

\* strings.HasPrefix(s[i:], sub)
HasPrefixAt(s, i, sub) ==
    /\ i + Len(sub) <= Len(s)
    /\ \A k \in 1..Len(sub) : s[i + k] = sub[k]

\* unicode.ToLower on the ASCII characters used
LowerChar(c) == IF c = "A" THEN "a" ELSE c

\* strings.ToLower (search.go:97-98): byte by byte while the string is ASCII;
\* otherwise rune by rune, U+023A becoming U+2C65 (two bytes become three) and
\* a byte that starts no rune becoming utf8.RuneError
RECURSIVE ToLowerFrom(_, _)
ToLowerFrom(s, i) ==
    IF i >= Len(s) THEN <<>>
    ELSE IF s[i + 1] \in Chars
    THEN <<LowerChar(s[i + 1])>> \o ToLowerFrom(s, i + 1)
    ELSE IF HasPrefixAt(s, i, UpperStroke)
    THEN LowerStroke \o ToLowerFrom(s, i + 2)
    ELSE IF HasPrefixAt(s, i, LowerStroke)
    THEN LowerStroke \o ToLowerFrom(s, i + 3)
    ELSE RuneError \o ToLowerFrom(s, i + 1)
ToLower(s) ==
    IF \A i \in 1..Len(s) : s[i] \in Chars
    THEN [i \in 1..Len(s) |-> LowerChar(s[i])]
    ELSE ToLowerFrom(s, 0)

\* the (?i) flag of the regular expressions (search.go:140, 375), for patterns
\* of ASCII characters: each byte compared without its case
FoldCase(s) == [i \in 1..Len(s) |-> LowerChar(s[i])]

\* strings.Index(s, sub): the 0-based index of the first occurrence, or -1
Index(s, sub) ==
    LET hits == {i \in 0..Len(s) : HasPrefixAt(s, i, sub)}
    IN IF hits = {} THEN -1 ELSE CHOOSE i \in hits : \A j \in hits : i <= j

\* strings.Split(s, "\n"): always at least one line
RECURSIVE SplitLines(_)
SplitLines(s) ==
    LET i == Index(s, <<"\n">>)
    IN IF i = -1 THEN <<s>>
       ELSE <<Slice(s, 0, i)>> \o SplitLines(SliceFrom(s, i + 1))

\* \w of the regular expressions: an ASCII letter, digit or '_'
IsASCIIWordChar(c) == c \in Letters \cup Digits \cup {"_"}

\* unicode.IsLetter(c) || unicode.IsDigit(c) || c == '_' for c = rune(b), b one
\* byte of the line (search.go:176-177, 184-185): the byte is read as the
\* character U+0000..U+00FF of that value, of which U+00C8, U+00BA, U+00E2 and
\* U+00EF are letters and U+00B1, U+00A5, U+00BF and U+00BD are not
IsWordChar(c) == IsASCIIWordChar(c) \/ c \in {"C8", "BA", "E2", "EF"}

(***************************************************************************)
(* SearchManager: the pieces of Find.                                      *)
(***************************************************************************)
\* search.go:19-23 with state.go's Position, both 1-based
Match(lineNum, start, end, text) ==
    [Start |-> [Line |-> lineNum + 1, Column |-> start + 1],
     End |-> [Line |-> lineNum + 1, Column |-> end + 1],
     Text |-> text]

\* search.go:171-191
isWholeWord(line, start, length) ==
    LET end == start + length
    IN /\ ~(start > 0 /\ IsWordChar(line[start]))
       /\ ~(end < Len(line) /\ IsWordChar(line[end + 1]))

\* search.go:116 and 131: where the scan of a line goes on after a candidate
\* at actualIndex, rejected or accepted
NextStartCol_PastMatch(actualIndex, patternLen) == actualIndex + patternLen
NextStartCol(actualIndex, patternLen) == actualIndex + 1

\* what the scan leaves behind the matches found when a slice expression
\* panics (slice bounds out of range)
PanicMark == [Start |-> [Line |-> 0, Column |-> 0],
              End |-> [Line |-> 0, Column |-> 0], Text |-> <<>>]
Panics(found) == found # <<>> /\ found[Len(found)] = PanicMark

\* search.go:105-132: the scan of one line from startCol on; originalLine is
\* sliced at the offsets found in line (search.go:122)
RECURSIVE findLiteralLine(_, _, _, _, _, _)
findLiteralLine(opts, line, originalLine, lineNum, searchPattern, startCol) ==
    LET index == Index(SliceFrom(line, startCol), searchPattern)
        actualIndex == startCol + index
        n == Len(searchPattern)
    IN IF index = -1 THEN <<>>
       ELSE IF opts.WholeWord /\ ~isWholeWord(line, actualIndex, n)
       THEN findLiteralLine(opts, line, originalLine, lineNum, searchPattern,
                            actualIndex + 1)
       ELSE IF actualIndex + n > Len(originalLine) THEN <<PanicMark>>
       ELSE <<Match(lineNum, actualIndex, actualIndex + n,
                    Slice(originalLine, actualIndex, actualIndex + n))>>
            \o findLiteralLine(opts, line, originalLine, lineNum, searchPattern,
                               NextStartCol(actualIndex, n))

\* the matches of a line and then those of the lines after it, unless the scan
\* of the line panicked
ThenScan_RestFirst(here, rest) == IF Panics(here) THEN here ELSE rest \o here
ThenScan(here, rest) == IF Panics(here) THEN here ELSE here \o rest

\* search.go:91-134
RECURSIVE findLiteralFrom(_, _, _, _, _)
findLiteralFrom(opts, lines, searchLines, searchPattern, lineNum) ==
    IF lineNum >= Len(searchLines) THEN <<>>
    ELSE ThenScan(findLiteralLine(opts, searchLines[lineNum + 1],
                                  lines[lineNum + 1], lineNum, searchPattern, 0),
                  findLiteralFrom(opts, lines, searchLines, searchPattern,
                                  lineNum + 1))

findLiteral(opts, text, pattern) ==
    LET searchText == IF ~opts.CaseSensitive THEN ToLower(text) ELSE text
        searchPattern == IF ~opts.CaseSensitive THEN ToLower(pattern) ELSE pattern
    IN findLiteralFrom(opts, SplitLines(text), SplitLines(searchText),
                       searchPattern, 0)

\* regexp.Compile (search.go:147, 382) on the patterns used: a pattern of
\* letters compiles, an unclosed "(" does not
RegexCompiles(pattern) == \A k \in 1..Len(pattern) : pattern[k] # "("

\* \b at 0-based offset k of line: a word character on exactly one side
WordBoundary(line, k) ==
    (k > 0 /\ IsASCIIWordChar(line[k]))
        # (k < Len(line) /\ IsASCIIWordChar(line[k + 1]))

\* whether the compiled expression (search.go:138-147: "(?i)" unless case
\* sensitive, \b...\b when whole word) matches line at 0-based offset i
RegexMatchesAt(opts, line, i, pattern) ==
    /\ IF opts.CaseSensitive THEN HasPrefixAt(line, i, pattern)
       ELSE HasPrefixAt(FoldCase(line), i, FoldCase(pattern))
    /\ opts.WholeWord =>
          WordBoundary(line, i) /\ WordBoundary(line, i + Len(pattern))

\* regex.FindAllStringIndex(line, -1): the successive non-overlapping matches,
\* as 0-based offsets, from offset `from` on
RECURSIVE FindAllStringIndex(_, _, _, _)
FindAllStringIndex(opts, line, pattern, from) ==
    IF from + Len(pattern) > Len(line) THEN <<>>
    ELSE IF RegexMatchesAt(opts, line, from, pattern)
    THEN <<from>> \o FindAllStringIndex(opts, line, pattern, from + Len(pattern))
    ELSE FindAllStringIndex(opts, line, pattern, from + 1)

\* search.go:137-168
RECURSIVE findRegexFrom(_, _, _, _)
findRegexFrom(opts, lines, pattern, lineNum) ==
    IF lineNum >= Len(lines) THEN <<>>
    ELSE LET line == lines[lineNum + 1]
             found == FindAllStringIndex(opts, line, pattern, 0)
         IN [k \in 1..Len(found) |->
                Match(lineNum, found[k], found[k] + Len(pattern),
                      Slice(line, found[k], found[k] + Len(pattern)))]
            \o findRegexFrom(opts, lines, pattern, lineNum + 1)

findRegex(opts, text, pattern) ==
    IF ~RegexCompiles(pattern) THEN <<>>
    ELSE findRegexFrom(opts, SplitLines(text), pattern, 0)

(***************************************************************************)
(* SearchManager: its methods, as functions of the manager's fields.       *)
(***************************************************************************)
\* search.go:10-16: the manager, and whether the call made on it panicked
Sm == [currentPattern |-> currentPattern, matches |-> matches,
       currentIndex |-> currentIndex, options |-> options,
       lastSearchText |-> lastSearchText, panicked |-> FALSE]

\* search.go:54-61
SetOptionsF_KeepMatches(sm, opts) == [sm EXCEPT !.options = opts]
SetOptionsF(sm, opts) ==
    IF sm.currentPattern # <<>>
    THEN [sm EXCEPT !.options = opts, !.matches = <<>>, !.currentIndex = -1]
    ELSE [sm EXCEPT !.options = opts]

\* search.go:76-87: the manager once the scan has appended what it found
Searched(sm, text, pattern, found) ==
    [sm EXCEPT !.currentPattern = pattern,
               !.lastSearchText = text,
               !.currentIndex = -1,
               !.matches = IF Panics(found) THEN SubSeq(found, 1, Len(found) - 1)
                           ELSE found,
               !.panicked = Panics(found)]

\* search.go:69-88
FindF(sm, text, pattern) ==
    IF pattern = <<>>
    THEN [sm EXCEPT !.matches = <<>>, !.currentIndex = -1]
    ELSE Searched(sm, text, pattern,
                  IF sm.options.RegularExpression
                  THEN findRegex(sm.options, text, pattern)
                  ELSE findLiteral(sm.options, text, pattern))

\* search.go:257-262; matches[i] of the code is matches[i + 1] here
GetCurrentMatchF(sm) ==
    IF sm.currentIndex < 0 \/ sm.currentIndex >= Len(sm.matches) THEN Nil
    ELSE Ptr(sm.matches[sm.currentIndex + 1])

\* search.go:372-388 with regexp.ReplaceAllString, for a replacement without
\* '$': every match of the expression inside matchText becomes the replacement
RECURSIVE ReplaceAllString(_, _, _, _, _)
ReplaceAllString(opts, src, pattern, replacement, from) ==
    IF from + Len(pattern) > Len(src) THEN SliceFrom(src, from)
    ELSE IF RegexMatchesAt(opts, src, from, pattern)
    THEN replacement
         \o ReplaceAllString(opts, src, pattern, replacement, from + Len(pattern))
    ELSE <<src[from + 1]>>
         \o ReplaceAllString(opts, src, pattern, replacement, from + 1)

processRegexReplacement(opts, matchText, pattern, replacement) ==
    IF ~RegexCompiles(pattern) THEN replacement
    ELSE ReplaceAllString(opts, matchText, pattern, replacement, 0)

\* search.go:302-306 and 345-349: the 0-based offset in the text of a position
RECURSIVE LineOffset(_, _)
LineOffset(lines, n) ==
    IF n = 0 THEN 0 ELSE LineOffset(lines, n - 1) + Len(lines[n]) + 1
AbsoluteStart(lines, pos) == LineOffset(lines, pos.Line - 1) + pos.Column - 1

\* search.go:287-321: the loop of replaceAll from match i (0-based) down to 0
RECURSIVE replaceAllFrom(_, _, _, _, _, _)
replaceAllFrom(opts, found, pattern, replacement, i, acc) ==
    IF i < 0 THEN acc
    ELSE
    LET match == found[i + 1]
        result == acc.text
        lines == SplitLines(result)
        skipLine == match.Start.Line - 1 >= Len(lines)
        line == lines[match.Start.Line]
        skipColumn == \/ match.Start.Column - 1 >= Len(line)
                      \/ match.End.Column - 1 > Len(line)
        absoluteStart == AbsoluteStart(lines, match.Start)
        absoluteEnd == absoluteStart + (match.End.Column - match.Start.Column)
        actualReplacement ==
            IF opts.RegularExpression
            THEN processRegexReplacement(opts, match.Text, pattern, replacement)
            ELSE replacement
        next == IF skipLine THEN acc
                ELSE IF skipColumn THEN acc
                ELSE IF absoluteEnd <= Len(result)
                THEN [text |-> Slice(result, 0, absoluteStart) \o actualReplacement
                                 \o SliceFrom(result, absoluteEnd),
                      count |-> acc.count + 1]
                ELSE acc
    IN replaceAllFrom(opts, found, pattern, replacement, i - 1, next)

\* search.go:276-324: the manager after the call and what the call returns
replaceAllF(sm, text, pattern, replacement) ==
    LET sm1 == FindF(sm, text, pattern)
        found == sm1.matches
        done == replaceAllFrom(sm1.options, found, pattern, replacement,
                               Len(found) - 1, [text |-> text, count |-> 0])
    IN IF sm1.panicked \/ Len(found) = 0
       THEN [sm |-> sm1, text |-> text, count |-> 0]
       ELSE [sm |-> sm1, text |-> done.text, count |-> done.count]

\* search.go:365-366: the matches are found anew on the result
Rescan_Skip(sm, result, pattern) == sm
Rescan(sm, result, pattern) == FindF(sm, result, pattern)

\* search.go:327-369
replaceCurrentF(sm, text, pattern, replacement) ==
    LET current == GetCurrentMatchF(sm)
        sm1 == IF current = Nil THEN FindF(sm, text, pattern) ELSE sm
        none == current = Nil /\ Len(sm1.matches) = 0
        sm2 == IF current = Nil /\ ~none THEN [sm1 EXCEPT !.currentIndex = 0]
               ELSE sm1
        currentMatch == IF current = Nil THEN sm1.matches[1] ELSE current[1]
        lines == SplitLines(text)
        absoluteStart == AbsoluteStart(lines, currentMatch.Start)
        absoluteEnd == absoluteStart
                       + (currentMatch.End.Column - currentMatch.Start.Column)
        actualReplacement ==
            IF sm2.options.RegularExpression
            THEN processRegexReplacement(sm2.options, currentMatch.Text,
                                         pattern, replacement)
            ELSE replacement
        result == Slice(text, 0, absoluteStart) \o actualReplacement
                  \o SliceFrom(text, absoluteEnd)
    IN IF sm1.panicked \/ none THEN [sm |-> sm1, text |-> text, count |-> 0]
       ELSE IF currentMatch.Start.Line - 1 >= Len(lines)
       THEN [sm |-> sm2, text |-> text, count |-> 0]
       ELSE IF absoluteEnd > Len(text)
       THEN [sm |-> sm2, text |-> text, count |-> 0]
       ELSE [sm |-> Rescan(sm2, result, pattern), text |-> result, count |-> 1]

\* search.go:265-273
ReplaceF(sm, text, pattern, replacement, ropts) ==
    LET sm1 == SetOptionsF(sm, ropts.SearchOptions)
    IN IF ropts.ReplaceAll
       THEN replaceAllF(sm1, text, pattern, replacement)
       ELSE replaceCurrentF(sm1, text, pattern, replacement)

(***************************************************************************)
(* SearchManager: construction and the calls.                              *)
(***************************************************************************)
\* the call observed: its name, what it returned (a *Match, a text and a
\* count, as far as it returns them), and for NextMatch and PreviousMatch the
\* current index the call started from (-1 for the other calls). No call is
\* made once one has panicked: the program is gone.
SCalled(name, retMatch, retText, count) ==
    /\ ~slast.panic
    /\ slast' = [call |-> name, retMatch |-> retMatch,
                 retText |-> retText, count |-> count,
                 from |-> IF name \in {"NextMatch", "PreviousMatch"}
                          THEN currentIndex ELSE -1,
                 panic |-> FALSE]

\* the call observed panicked and returned nothing
SPanicked(name) ==
    /\ ~slast.panic
    /\ slast' = [call |-> name, retMatch |-> Nil, retText |-> <<>>, count |-> 0,
                 from |-> -1, panic |-> TRUE]

Store(sm) ==
    /\ currentPattern' = sm.currentPattern
    /\ matches' = sm.matches
    /\ currentIndex' = sm.currentIndex
    /\ options' = sm.options
    /\ lastSearchText' = sm.lastSearchText

\* search.go:40-51
NewSearchManager ==
    /\ currentPattern = <<>>
    /\ matches = <<>>
    /\ currentIndex = -1
    /\ options = [CaseSensitive |-> FALSE, WholeWord |-> FALSE,
                  RegularExpression |-> FALSE, WrapAround |-> TRUE]
    /\ lastSearchText = <<>>
    /\ slast = [call |-> "NewSearchManager", retMatch |-> Nil,
                retText |-> <<>>, count |-> 0, from |-> -1, panic |-> FALSE]

\* search.go:54-61
SetOptions(opts) ==
    /\ Store(SetOptionsF(Sm, opts))
    /\ SCalled("SetOptions", Nil, <<>>, 0)
    /\ UNCHANGED content

\* search.go:69-88
Find(text, pattern) ==
    \E sm \in {FindF(Sm, text, pattern)} :
       /\ Store(sm)
       /\ IF sm.panicked THEN SPanicked("Find")
          ELSE SCalled("Find", Nil, <<>>, 0)
       /\ UNCHANGED content

\* search.go:217 and 236: the index a step past an end wraps to (n matches)
NextWrap_Stay(n) == n - 1
NextWrap(n) == 0
PreviousWrap(n) == n - 1

\* search.go:219 and 238: the index a step past an end is clamped to
NextClamp_First(n) == 0
NextClamp(n) == n - 1
PreviousClamp_None(n) == -2
PreviousClamp(n) == 0

\* search.go:209-225
NextMatch ==
    IF Len(matches) = 0
    THEN /\ SCalled("NextMatch", Nil, <<>>, 0)
         /\ UNCHANGED <<currentPattern, matches, currentIndex, options,
                        lastSearchText, content>>
    ELSE LET stepped == currentIndex + 1
             past == stepped >= Len(matches)
             index == IF ~past THEN stepped
                      ELSE IF options.WrapAround THEN NextWrap(Len(matches))
                      ELSE NextClamp(Len(matches))
         IN /\ currentIndex' = index
            /\ SCalled("NextMatch",
                       IF past /\ ~options.WrapAround THEN Nil
                       ELSE Ptr(matches[index + 1]), <<>>, 0)
            /\ UNCHANGED <<currentPattern, matches, options, lastSearchText,
                           content>>

\* search.go:228-244
PreviousMatch ==
    IF Len(matches) = 0
    THEN /\ SCalled("PreviousMatch", Nil, <<>>, 0)
         /\ UNCHANGED <<currentPattern, matches, currentIndex, options,
                        lastSearchText, content>>
    ELSE LET stepped == currentIndex - 1
             past == stepped < 0
             index == IF ~past THEN stepped
                      ELSE IF options.WrapAround THEN PreviousWrap(Len(matches))
                      ELSE PreviousClamp(Len(matches))
         IN /\ currentIndex' = index
            /\ SCalled("PreviousMatch",
                       IF past /\ ~options.WrapAround THEN Nil
                       ELSE Ptr(matches[index + 1]), <<>>, 0)
            /\ UNCHANGED <<currentPattern, matches, options, lastSearchText,
                           content>>

\* search.go:247-254
SetCurrentMatch(index) ==
    IF index < 0 \/ index >= Len(matches)
    THEN /\ SCalled("SetCurrentMatch", Nil, <<>>, 0)
         /\ UNCHANGED <<currentPattern, matches, currentIndex, options,
                        lastSearchText, content>>
    ELSE /\ currentIndex' = index
         /\ SCalled("SetCurrentMatch", Ptr(matches[index + 1]), <<>>, 0)
         /\ UNCHANGED <<currentPattern, matches, options, lastSearchText,
                           content>>

\* search.go:265-273, and the caller's write-back of a changed text
\* (dialogs/replace.go:146-147, 183-184)
Replace(text, pattern, replacement, ropts) ==
    \E r \in {ReplaceF(Sm, text, pattern, replacement, ropts)} :
       /\ Store(r.sm)
       /\ IF r.sm.panicked
          THEN SPanicked("Replace") /\ UNCHANGED content
          ELSE /\ SCalled("Replace", Nil, r.text, r.count)
               /\ content' = IF r.count > 0 THEN r.text ELSE content

\* search.go:391-396
SearchClear ==
    /\ Store([Sm EXCEPT !.currentPattern = <<>>, !.matches = <<>>,
                        !.currentIndex = -1, !.lastSearchText = <<>>])
    /\ SCalled("Clear", Nil, <<>>, 0)
    /\ UNCHANGED content

(***************************************************************************)
(* The IndentationManager (ui/indentation.go). Contents and lines are      *)
(* strings of the characters below.                                        *)
(***************************************************************************)
IndentChars == {" ", "\t", "x", "\n"}

\* the contents the editor may hold when the indentation calls start
IndentTextInputs == SeqsUpTo(IndentChars, MaxIndentLen)

\* the line numbers handed to IndentLines / UnindentLines (0-based)
LineInputs == -1..2

\* indentation.go:18: the default tab size
DefaultTabSize == 4
\* indentation.go:26: the largest tab size SetTabSize accepts
MaxTabSize == 16

\* the sizes handed to SetTabSize
TabSizeInputs == {0, 1, 2, MaxTabSize + 1}

\* strings.Repeat(s, count)
RECURSIVE Repeat(_, _)
Repeat(s, count) == IF count <= 0 THEN <<>> ELSE s \o Repeat(s, count - 1)

\* strings.Join(lines, "\n")
RECURSIVE JoinLines(_)
JoinLines(lines) ==
    IF Len(lines) = 0 THEN <<>>
    ELSE IF Len(lines) = 1 THEN lines[1]
    ELSE lines[1] \o <<"\n">> \o JoinLines(Tail(lines))

\* strings.ReplaceAll(s, old, new) for a non-empty old: the occurrences of old
\* from left to right, none overlapping another
RECURSIVE ReplaceAll(_, _, _)
ReplaceAll(s, old, new) ==
    IF s = <<>> THEN <<>>
    ELSE IF HasPrefixAt(s, 0, old)
    THEN new \o ReplaceAll(SliceFrom(s, Len(old)), old, new)
    ELSE <<s[1]>> \o ReplaceAll(Tail(s), old, new)

\* indentation.go:302-304 and the test of line 184: strings.TrimSpace(line) == ""
IsWhitespaceOnly(line) == \A k \in 1..Len(line) : line[k] \in {" ", "\t", "\n"}

\* indentation.go:57-62
GetIndentString ==
    IF useSpaces THEN Repeat(<<" ">>, tabSize) ELSE <<"\t">>

\* indentation.go:217-227: the leading run of spaces and tabs
RECURSIVE GetLineIndentation(_)
GetLineIndentation(line) ==
    IF line # <<>> /\ line[1] \in {" ", "\t"}
    THEN <<line[1]>> \o GetLineIndentation(Tail(line))
    ELSE <<>>

\* indentation.go:185: the indented line
Indented_Twice(indentStr, line) == indentStr \o indentStr \o line
Indented(indentStr, line) == indentStr \o line

\* the range [startLine, endLine] as IndentLines and UnindentLines clamp it
\* (indentation.go:170-175 and 196-201)
ClampStart(startLine) == IF startLine < 0 THEN 0 ELSE startLine
ClampEnd(lines, endLine) == IF endLine >= Len(lines) THEN Len(lines) - 1 ELSE endLine

\* indentation.go:167-190
IndentLinesF(text, startLine, endLine) ==
    LET lines == SplitLines(text)
        from == ClampStart(startLine)
        to == ClampEnd(lines, endLine)
    IN IF from > to THEN text
       ELSE JoinLines([i \in 1..Len(lines) |->
                IF from <= i - 1 /\ i - 1 <= to /\ ~IsWhitespaceOnly(lines[i])
                THEN Indented(GetIndentString, lines[i])
                ELSE lines[i]])

\* indentation.go:246-261: the loop over the leading characters, at character i
\* with removed spaces counted so far, and what follows the loop
RECURSIVE removeLeading(_, _, _)
removeLeading(line, i, removed) ==
    IF i < Len(line) /\ line[i + 1] = " "
    THEN IF removed + 1 >= tabSize
         THEN [newLine |-> SliceFrom(line, i + 1), removed |-> removed + 1]
         ELSE removeLeading(line, i + 1, removed + 1)
    ELSE IF i < Len(line) /\ line[i + 1] = "\t"
    THEN [newLine |-> SliceFrom(line, i + 1), removed |-> 1]
    ELSE IF removed > 0
    THEN [newLine |-> SliceFrom(line, removed), removed |-> removed]
    ELSE [newLine |-> line, removed |-> 0]

\* indentation.go:230-264
removeIndentation(line) ==
    IF line = <<>> THEN [newLine |-> line, removed |-> 0]
    ELSE IF HasPrefixAt(line, 0, GetIndentString)
    THEN [newLine |-> SliceFrom(line, Len(GetIndentString)),
          removed |-> Len(GetIndentString)]
    ELSE removeLeading(line, 0, 0)

\* indentation.go:193-214
UnindentLinesF(text, startLine, endLine) ==
    LET lines == SplitLines(text)
        from == ClampStart(startLine)
        to == ClampEnd(lines, endLine)
    IN IF from > to THEN text
       ELSE JoinLines([i \in 1..Len(lines) |->
                IF from <= i - 1 /\ i - 1 <= to
                THEN removeIndentation(lines[i]).newLine
                ELSE lines[i]])

\* indentation.go:268 and 276: strings.Repeat(" ", im.tabSize)
SpaceStr_OneMore == Repeat(<<" ">>, tabSize + 1)
SpaceStr == Repeat(<<" ">>, tabSize)

\* indentation.go:267-270
ConvertTabsToSpacesF(text) == ReplaceAll(text, <<"\t">>, SpaceStr)

\* indentation.go:278-286: one line of ConvertSpacesToTabs
SpacesToTabsLine(line) ==
    LET indentation == GetLineIndentation(line)
    IN IF \E k \in 1..Len(indentation) : indentation[k] = " "
       THEN ReplaceAll(indentation, SpaceStr, <<"\t">>)
            \o SliceFrom(line, Len(indentation))
       ELSE line

\* indentation.go:273-288
ConvertSpacesToTabsF(text) ==
    LET lines == SplitLines(text)
    IN JoinLines([i \in 1..Len(lines) |-> SpacesToTabsLine(lines[i])])

NoTrip == [stage |-> "none", from |-> <<>>, startLine |-> 0, endLine |-> 0]

\* indentation.go:15-22
NewIndentationManager ==
    /\ tabSize = DefaultTabSize
    /\ useSpaces = TRUE
    /\ trip = NoTrip

\* indentation.go:25-29
SetTabSize(size) ==
    /\ tabSize' = IF size > 0 /\ size <= MaxTabSize THEN size ELSE tabSize
    /\ trip' = NoTrip
    /\ UNCHANGED <<useSpaces, buffer>>

\* indentation.go:37-39
SetUseSpaces(b) ==
    /\ useSpaces' = b
    /\ trip' = NoTrip
    /\ UNCHANGED <<tabSize, buffer>>

\* the editor takes the result of a call as its content
Holds(result) ==
    \E text \in {result} :
        /\ Len(text) <= MaxBufferLen
        /\ buffer' = text

\* indentation.go:167-190
IndentLines(text, startLine, endLine) ==
    /\ Holds(IndentLinesF(text, startLine, endLine))
    /\ trip' = [stage |-> "indented", from |-> text,
                startLine |-> startLine, endLine |-> endLine]
    /\ UNCHANGED <<tabSize, useSpaces>>

\* indentation.go:193-214
UnindentLines(text, startLine, endLine) ==
    /\ Holds(UnindentLinesF(text, startLine, endLine))
    /\ trip' = IF /\ trip.stage = "indented"
                  /\ trip.startLine = startLine
                  /\ trip.endLine = endLine
               THEN [trip EXCEPT !.stage = "unindented"]
               ELSE NoTrip
    /\ UNCHANGED <<tabSize, useSpaces>>

\* indentation.go:267-270
ConvertTabsToSpaces(text) ==
    /\ Holds(ConvertTabsToSpacesF(text))
    /\ trip' = [stage |-> "spaces", from |-> text, startLine |-> 0, endLine |-> 0]
    /\ UNCHANGED <<tabSize, useSpaces>>

\* indentation.go:273-288
ConvertSpacesToTabs(text) ==
    /\ Holds(ConvertSpacesToTabsF(text))
    /\ trip' = IF trip.stage = "spaces" THEN [trip EXCEPT !.stage = "tabs"]
               ELSE NoTrip
    /\ UNCHANGED <<tabSize, useSpaces>>

INext ==
    \/ \E size \in TabSizeInputs : SetTabSize(size) /\ UNCHANGED <<hvars, svars, evars, cvars>>
    \/ \E b \in BOOLEAN : SetUseSpaces(b) /\ UNCHANGED <<hvars, svars, evars, cvars>>
    \/ \E a \in LineInputs, b \in LineInputs :
          IndentLines(buffer, a, b) /\ UNCHANGED <<hvars, svars, evars, cvars>>
    \/ \E a \in LineInputs, b \in LineInputs :
          UnindentLines(buffer, a, b) /\ UNCHANGED <<hvars, svars, evars, cvars>>
    \/ ConvertTabsToSpaces(buffer) /\ UNCHANGED <<hvars, svars, evars, cvars>>
    \/ ConvertSpacesToTabs(buffer) /\ UNCHANGED <<hvars, svars, evars, cvars>>

\* indentation.go:87-95: the index of the line the cursor is on, looked for from
\* line i on, which starts at offset currentPos; line 0 if no line reaches the
\* cursor
RECURSIVE CursorLineFrom(_, _, _, _)
CursorLineFrom(lines, i, currentPos, cursorPos) ==
    IF i >= Len(lines) THEN 0
    ELSE IF currentPos + Len(lines[i + 1]) >= cursorPos THEN i
    ELSE CursorLineFrom(lines, i + 1, currentPos + Len(lines[i + 1]) + 1, cursorPos)

\* indentation.go:79-120, with what removeIndentation was handed and returned
HandleShiftTabKeyF(text, cursorPos) ==
    LET lines == SplitLines(text)
        lineIndex == CursorLineFrom(lines, 0, 0, cursorPos)
        originalLine == lines[lineIndex + 1]
    IN IF text = <<>>
       THEN [newContent |-> text, newCursorPos |-> cursorPos,
             line |-> <<>>, newLine |-> <<>>, removed |-> 0]
       ELSE IF removeIndentation(originalLine).removed = 0
       THEN [newContent |-> text, newCursorPos |-> cursorPos,
             line |-> originalLine,
             newLine |-> removeIndentation(originalLine).newLine, removed |-> 0]
       ELSE [newContent |->
                 JoinLines([lines EXCEPT
                     ![lineIndex + 1] = removeIndentation(originalLine).newLine]),
             newCursorPos |->
                 IF cursorPos - removeIndentation(originalLine).removed < 0 THEN 0
                 ELSE cursorPos - removeIndentation(originalLine).removed,
             line |-> originalLine,
             newLine |-> removeIndentation(originalLine).newLine,
             removed |-> removeIndentation(originalLine).removed]

\* indentation.go:79-120
HandleShiftTabKey(text, cursorPos) ==
    \E r \in {HandleShiftTabKeyF(text, cursorPos)} :
        /\ buffer' = r.newContent
        /\ trip' = [stage |-> "shiftTab", from |-> text, cursorPos |-> cursorPos,
                    newCursorPos |-> r.newCursorPos, line |-> r.line,
                    newLine |-> r.newLine, removed |-> r.removed]
        /\ UNCHANGED <<tabSize, useSpaces>>

\* the IndentationManager's calls and the Shift+Tab key, the cursor anywhere
\* in the content
ShiftTabNext ==
    \/ INext
    \/ \E cursorPos \in 0..MaxBufferLen :
          /\ cursorPos <= Len(buffer)
          /\ HandleShiftTabKey(buffer, cursorPos)
          /\ UNCHANGED <<hvars, svars, evars, cvars>>

SNext ==
    \/ \E o \in OptionInputs : SetOptions(o) /\ UNCHANGED <<hvars, ivars, evars, cvars>>
    \/ \E p \in PatternInputs : Find(content, p) /\ UNCHANGED <<hvars, ivars, evars, cvars>>
    \/ NextMatch /\ UNCHANGED <<hvars, ivars, evars, cvars>>
    \/ PreviousMatch /\ UNCHANGED <<hvars, ivars, evars, cvars>>
    \/ \E i \in -1..MaxTextLen : SetCurrentMatch(i) /\ UNCHANGED <<hvars, ivars, evars, cvars>>
    \/ \E p \in PatternInputs, r \in ReplacementInputs, all \in BOOLEAN :
            Replace(content, p, r, [SearchOptions |-> options, ReplaceAll |-> all])
            /\ UNCHANGED <<hvars, ivars, evars, cvars>>
    \/ SearchClear /\ UNCHANGED <<hvars, ivars, evars, cvars>>

(***************************************************************************)
(* The specifications: the History alone, the SearchManager alone.         *)
(***************************************************************************)
HNext ==
    \/ \E op \in OpInputs : RecordOperation(op) /\ UNCHANGED <<svars, ivars, evars, cvars>>
    \/ \E p \in Positions, t \in Texts : RecordInsert(p, t) /\ UNCHANGED <<svars, ivars, evars, cvars>>
    \/ \E p \in Positions, t \in Texts : RecordDelete(p, t) /\ UNCHANGED <<svars, ivars, evars, cvars>>
    \/ \E p \in Positions, o \in Texts, n \in Texts :
          RecordReplace(p, o, n) /\ UNCHANGED <<svars, ivars, evars, cvars>>
    \/ Undo /\ UNCHANGED <<svars, ivars, evars, cvars>>
    \/ Redo /\ UNCHANGED <<svars, ivars, evars, cvars>>
    \/ Clear /\ UNCHANGED <<svars, ivars, evars, cvars>>
    \/ \E b \in BOOLEAN : SetEnabled(b) /\ UNCHANGED <<svars, ivars, evars, cvars>>
    \/ \E n \in -1..MaxSizeArg : SetMaxSize(n) /\ UNCHANGED <<svars, ivars, evars, cvars>>

\* the History and a caller that inspects it and writes into what it was handed
InspectNext ==
    \/ HNext
    \/ CallGetOperationHistory /\ UNCHANGED <<svars, ivars, evars, cvars>>
    \/ \E i \in 0..(MaxCalls - 1) : MutateReturned(i) /\ UNCHANGED <<svars, ivars, evars, cvars>>

(***************************************************************************)
(* The Editor (ui/editor.go): its text widget and its History.             *)
(***************************************************************************)
\* the texts handed to InsertText and ReplaceText, and the contents of the
\* files handed to LoadFile
EditorTexts == {"", "a"}

\* the lengths handed to DeleteText
LengthInputs == 1..2

NoEdit == [call |-> "none", stage |-> "none", before |-> "", after |-> ""]

\* editor.go NewEditor: widget.NewMultiLineEntry() holds no text
NewEditor ==
    /\ editorText = ""
    /\ edit = NoEdit

\* an edit call that returned: recorded, if the History was recording
Edited(call) ==
    edit' = IF enabled
            THEN [call |-> call, stage |-> "edited", before |-> editorText,
                  after |-> editorText']
            ELSE NoEdit

\* Editor.InsertText
EditorInsertText(text) ==
    IF text = ""
    THEN UNCHANGED <<hvars, evars>>
    ELSE /\ RecordInsert([Line |-> 1, Column |-> 1], text)
         /\ editorText' = editorText \o text
         /\ Edited("InsertText")

\* Editor.DeleteText
EditorDeleteText(position, length) ==
    IF Len(editorText) = 0
    THEN UNCHANGED <<hvars, evars>>
    ELSE LET n == IF length > Len(editorText) THEN Len(editorText) ELSE length
             deletedText == SubSeq(editorText, Len(editorText) - n + 1,
                                   Len(editorText))
             newContent == SubSeq(editorText, 1, Len(editorText) - n)
         IN /\ RecordDelete(position, deletedText)
            /\ editorText' = newContent
            /\ Edited("DeleteText")

\* Editor.ReplaceText
EditorReplaceText(position, oldText, newText) ==
    /\ RecordReplace(position, oldText, newText)
    /\ editorText' = IF oldText # "" THEN editorText \o newText ELSE editorText
    /\ Edited("ReplaceText")

\* Editor.applyOperation, the text it leaves
applyOperation(op, widgetText) ==
    IF op.Type = "Insert" THEN widgetText \o op.NewText
    ELSE IF op.Type = "Delete"
    THEN IF Len(widgetText) >= Len(op.OldText)
         THEN SubSeq(widgetText, 1, Len(widgetText) - Len(op.OldText))
         ELSE widgetText
    ELSE widgetText \o op.NewText

\* Editor.applyReverseOperation, the text it leaves
applyReverseOperation(op, widgetText) ==
    IF op.Type = "Insert"
    THEN IF Len(widgetText) >= Len(op.NewText)
         THEN SubSeq(widgetText, 1, Len(widgetText) - Len(op.NewText))
         ELSE widgetText
    ELSE widgetText \o op.OldText

\* Editor.applyOperation and applyReverseOperation: History.SetEnabled(false)
\* at the start, deferred History.SetEnabled(true) at the end
EnabledAfterApply(was) == TRUE

\* the History after applyOperation / applyReverseOperation returned: its last
\* call is the deferred SetEnabled(true)
Applied(undo, redo) ==
    /\ enabled' = EnabledAfterApply(enabled)
    /\ last' = [call |-> "SetEnabled", arg |-> TRUE, ret |-> Nil,
                undoBefore |-> Len(undo), redoBefore |-> Len(redo)]
    /\ script' = NoScript
    /\ snap' = NoSnap

\* Editor.Undo
EditorUndo ==
    IF ~CanUndo
    THEN UNCHANGED <<hvars, evars>>
    ELSE /\ Len(applyReverseOperation(Top(undoStack), editorText)) <= MaxEditorLen
         /\ undoStack' = Pop(undoStack)
         /\ redoStack' = Append(redoStack, Top(undoStack))
         /\ Applied(Pop(undoStack), Append(redoStack, Top(undoStack)))
         /\ editorText' = applyReverseOperation(Top(undoStack), editorText)
         /\ edit' = IF edit.stage = "edited" THEN [edit EXCEPT !.stage = "undone"]
                    ELSE NoEdit
         /\ UNCHANGED <<maxSize, now, dropped, cleared, returned>>

\* Editor.Redo
EditorRedo ==
    IF ~CanRedo
    THEN UNCHANGED <<hvars, evars>>
    ELSE /\ Len(applyOperation(Top(redoStack), editorText)) <= MaxEditorLen
         /\ redoStack' = Pop(redoStack)
         /\ undoStack' = Append(undoStack, Top(redoStack))
         /\ Applied(Append(undoStack, Top(redoStack)), Pop(redoStack))
         /\ editorText' = applyOperation(Top(redoStack), editorText)
         /\ edit' = IF edit.stage = "undone" THEN [edit EXCEPT !.stage = "redone"]
                    ELSE NoEdit
         /\ UNCHANGED <<maxSize, now, dropped, cleared, returned>>

\* Editor.NewFile and Editor.LoadFile: e.History.Clear()
HistoryCleared_Not == UNCHANGED hvars
HistoryCleared == Clear

\* Editor.NewFile
EditorNewFile ==
    /\ editorText' = ""
    /\ HistoryCleared
    /\ edit' = [call |-> "NewFile", stage |-> "opened", before |-> editorText,
                after |-> ""]

\* Editor.LoadFile: the file is read, or it is not and the error is returned
EditorLoadFile(fileText, readable) ==
    IF ~readable
    THEN UNCHANGED <<hvars, evars>>
    ELSE /\ editorText' = fileText
         /\ HistoryCleared
         /\ edit' = [call |-> "LoadFile", stage |-> "opened",
                     before |-> editorText, after |-> fileText]

\* e.History.SetEnabled, the History being a field of the Editor open to its
\* callers
EditorSetEnabled(b) == SetEnabled(b) /\ UNCHANGED editorText /\ edit' = NoEdit

ENext ==
    \/ \E t \in EditorTexts : EditorInsertText(t) /\ UNCHANGED <<svars, ivars, cvars>>
    \/ \E p \in Positions, n \in LengthInputs :
          EditorDeleteText(p, n) /\ UNCHANGED <<svars, ivars, cvars>>
    \/ \E p \in Positions, o \in EditorTexts, n \in EditorTexts :
          EditorReplaceText(p, o, n) /\ UNCHANGED <<svars, ivars, cvars>>
    \/ EditorUndo /\ UNCHANGED <<svars, ivars, cvars>>
    \/ EditorRedo /\ UNCHANGED <<svars, ivars, cvars>>
    \/ EditorNewFile /\ UNCHANGED <<svars, ivars, cvars>>
    \/ \E c \in EditorTexts, readable \in BOOLEAN :
          EditorLoadFile(c, readable) /\ UNCHANGED <<svars, ivars, cvars>>
    \/ \E b \in BOOLEAN : EditorSetEnabled(b) /\ UNCHANGED <<svars, ivars, cvars>>

(***************************************************************************)
(* backend.ConfigManager (config.go).                                      *)
(***************************************************************************)
\* the keys of DefaultConfiguration().Syntax.Languages
LanguageNames ==
    {"go", "javascript", "typescript", "python", "java", "html", "css", "json",
     "xml", "yaml"}

\* a map[string]bool: nil, or its entries
NilMap == [isNil |-> TRUE, entries |-> [l \in {} |-> TRUE]]
MakeMap(m) == [isNil |-> FALSE, entries |-> m]

\* DefaultConfiguration
DefaultConfiguration ==
    [Editor |-> [FontSize |-> 14, TabSize |-> 4, WordWrap |-> FALSE,
                 ShowLineNumbers |-> TRUE, AutoIndent |-> TRUE,
                 InsertSpaces |-> TRUE, TrimWhitespace |-> TRUE],
     UI |-> [Theme |-> "light", WindowWidth |-> 800, WindowHeight |-> 600,
             WindowX |-> 100, WindowY |-> 100, Maximized |-> FALSE],
     Syntax |-> [DefaultTheme |-> "github",
                 Languages |-> MakeMap([l \in LanguageNames |-> TRUE]),
                 Enabled |-> TRUE]]

\* var config Configuration: every field holds the zero value of its type
ZeroConfiguration ==
    [Editor |-> [FontSize |-> 0, TabSize |-> 0, WordWrap |-> FALSE,
                 ShowLineNumbers |-> FALSE, AutoIndent |-> FALSE,
                 InsertSpaces |-> FALSE, TrimWhitespace |-> FALSE],
     UI |-> [Theme |-> "", WindowWidth |-> 0, WindowHeight |-> 0,
             WindowX |-> 0, WindowY |-> 0, Maximized |-> FALSE],
     Syntax |-> [DefaultTheme |-> "", Languages |-> NilMap, Enabled |-> FALSE]]

\* the fields of the three sections, by the names of the Go structs
IntFields ==
    {<<"Editor", "FontSize">>, <<"Editor", "TabSize">>, <<"UI", "WindowWidth">>,
     <<"UI", "WindowHeight">>, <<"UI", "WindowX">>, <<"UI", "WindowY">>}
BoolFields ==
    {<<"Editor", "WordWrap">>, <<"Editor", "ShowLineNumbers">>,
     <<"Editor", "AutoIndent">>, <<"Editor", "InsertSpaces">>,
     <<"Editor", "TrimWhitespace">>, <<"UI", "Maximized">>,
     <<"Syntax", "Enabled">>}
StringFields == {<<"UI", "Theme">>, <<"Syntax", "DefaultTheme">>}
MapFields == {<<"Syntax", "Languages">>}
Fields == IntFields \cup BoolFields \cup StringFields \cup MapFields

\* the field f of the configuration c, and c with v in it
Get(c, f) == c[f[1]][f[2]]
With(c, f, v) == [c EXCEPT ![f[1]][f[2]] = v]

\* a well-formed JSON document of the configuration file: the fields it has,
\* and their values (a field whose value is null counts as left out, which is
\* how encoding/json decodes it)
EmptyDoc == [has |-> {}, val |-> ZeroConfiguration]
DocWith(doc, f, v) == [has |-> doc.has \cup {f}, val |-> With(doc.val, f, v)]

\* json.Unmarshal(data, &config) into a zero Configuration: the fields the
\* document has are set, the others stay zero
Unmarshal(doc) ==
    [s \in DOMAIN ZeroConfiguration |->
        [n \in DOMAIN ZeroConfiguration[s] |->
            IF <<s, n>> \in doc.has THEN doc.val[s][n]
            ELSE ZeroConfiguration[s][n]]]

\* json.MarshalIndent(cm.config, ...): no field is tagged omitempty, so every
\* field is written; a nil map is written as null
Marshal(c) ==
    [has |-> {f \in Fields : f \in MapFields => ~Get(c, f).isNil},
     val |-> c]

\* ConfigManager.mergeWithDefaults
mergeWithDefaults(c) ==
    LET defaults == DefaultConfiguration
        Merged(f, isZero) == IF isZero THEN Get(defaults, f) ELSE Get(c, f)
    IN  [c EXCEPT
           !.Editor.FontSize = Merged(<<"Editor", "FontSize">>, @ = 0),
           !.Editor.TabSize = Merged(<<"Editor", "TabSize">>, @ = 0),
           !.UI.Theme = Merged(<<"UI", "Theme">>, @ = ""),
           !.UI.WindowWidth = Merged(<<"UI", "WindowWidth">>, @ = 0),
           !.UI.WindowHeight = Merged(<<"UI", "WindowHeight">>, @ = 0),
           !.Syntax.DefaultTheme = Merged(<<"Syntax", "DefaultTheme">>, @ = ""),
           !.Syntax.Languages = Merged(<<"Syntax", "Languages">>, @.isNil)]

\* the values a file gives a field
FileValues(f) ==
    IF f \in IntFields THEN {0, 18}
    ELSE IF f \in BoolFields THEN BOOLEAN
    ELSE IF f \in StringFields THEN {"", "dark"}
    ELSE {MakeMap([l \in {} |-> TRUE]), MakeMap([l \in {"go"} |-> FALSE])}

\* the partial configuration of TestConfigManagerMergeWithDefaults
PartialConfig ==
    DocWith(DocWith(EmptyDoc, <<"Editor", "FontSize">>, 18), <<"UI", "Theme">>, "dark")

\* the documents the file holds: no field, one field, the test's two
ConfigDocs ==
    {EmptyDoc, PartialConfig}
        \cup {DocWith(EmptyDoc, f, v) : <<f, v>> \in
                UNION {{<<g, w>> : w \in FileValues(g)} : g \in Fields}}

\* the file at configPath: none, one that does not parse, or a document
NoFile == [state |-> "absent", doc |-> EmptyDoc]
MalformedFile == [state |-> "malformed", doc |-> EmptyDoc]
DocFile(doc) == [state |-> "ok", doc |-> doc]

\* the sections the callers hand to the Update calls
EditorConfigInputs ==
    {[DefaultConfiguration.Editor EXCEPT !.FontSize = 0, !.WordWrap = TRUE]}
UIConfigInputs ==
    {[DefaultConfiguration.UI EXCEPT !.Theme = "dark", !.WindowX = 0]}
SyntaxConfigInputs ==
    {[DefaultConfiguration.Syntax EXCEPT !.Languages = NilMap, !.Enabled = FALSE]}

NoLoad == [call |-> "none", read |-> FALSE, err |-> FALSE, doc |-> EmptyDoc]

\* NewConfigManager
NewConfigManager ==
    /\ config = DefaultConfiguration
    /\ cload = [NoLoad EXCEPT !.call = "NewConfigManager"]

\* ConfigManager.Load
ConfigLoad ==
    /\ UNCHANGED configFile
    /\ IF configFile.state = "absent"
       THEN /\ config' = config
            /\ cload' = [NoLoad EXCEPT !.call = "Load"]
       ELSE IF configFile.state = "malformed"
       THEN /\ config' = config
            /\ cload' = [NoLoad EXCEPT !.call = "Load", !.err = TRUE]
       ELSE /\ config' = mergeWithDefaults(Unmarshal(configFile.doc))
            /\ cload' = [call |-> "Load", read |-> TRUE, err |-> FALSE,
                         doc |-> configFile.doc]

\* ConfigManager.Save
ConfigSave ==
    /\ configFile' = DocFile(Marshal(config))
    /\ cload' = [NoLoad EXCEPT !.call = "Save"]
    /\ UNCHANGED config

\* ConfigManager.UpdateEditorConfig
UpdateEditorConfig(c) ==
    /\ config' = [config EXCEPT !.Editor = c]
    /\ cload' = [NoLoad EXCEPT !.call = "UpdateEditorConfig"]
    /\ UNCHANGED configFile

\* ConfigManager.UpdateUIConfig
UpdateUIConfig(c) ==
    /\ config' = [config EXCEPT !.UI = c]
    /\ cload' = [NoLoad EXCEPT !.call = "UpdateUIConfig"]
    /\ UNCHANGED configFile

\* ConfigManager.UpdateSyntaxConfig
UpdateSyntaxConfig(c) ==
    /\ config' = [config EXCEPT !.Syntax = c]
    /\ cload' = [NoLoad EXCEPT !.call = "UpdateSyntaxConfig"]
    /\ UNCHANGED configFile

\* the user, or another program, writes, damages or removes the file
EditConfigFile(f) ==
    /\ configFile' = f
    /\ cload' = [NoLoad EXCEPT !.call = "EditConfigFile"]
    /\ UNCHANGED config

CNext ==
    \/ ConfigLoad /\ UNCHANGED <<hvars, svars, ivars, evars>>
    \/ ConfigSave /\ UNCHANGED <<hvars, svars, ivars, evars>>
    \/ \E c \in EditorConfigInputs :
          UpdateEditorConfig(c) /\ UNCHANGED <<hvars, svars, ivars, evars>>
    \/ \E c \in UIConfigInputs :
          UpdateUIConfig(c) /\ UNCHANGED <<hvars, svars, ivars, evars>>
    \/ \E c \in SyntaxConfigInputs :
          UpdateSyntaxConfig(c) /\ UNCHANGED <<hvars, svars, ivars, evars>>
    \/ \E f \in {NoFile, MalformedFile} \cup {DocFile(d) : d \in ConfigDocs} :
          EditConfigFile(f) /\ UNCHANGED <<hvars, svars, ivars, evars>>

\* the SearchManager's caller: an editor holding any of the texts. The options
\* Replace is handed are the manager's own (dialogs/replace.go:138-141), set
\* beforehand with SetOptions.
SInit == NewSearchManager /\ content \in TextInputs

\* a History under use, next to a SearchManager nobody calls
HistoryInit ==
    /\ HInit /\ NewSearchManager /\ content = <<>>
    /\ NewIndentationManager /\ buffer = <<>> /\ NewEditor
    /\ NewConfigManager /\ configFile = NoFile

HistorySpec == HistoryInit /\ [][HNext]_vars

InspectSpec == HistoryInit /\ [][InspectNext]_vars

\* a SearchManager under use, next to a History nobody calls
SearchInit ==
    /\ NewHistory /\ SInit /\ NewIndentationManager /\ buffer = <<>> /\ NewEditor
    /\ NewConfigManager /\ configFile = NoFile

SearchSpec == SearchInit /\ [][SNext]_vars

\* the same, the editor holding a text with characters of several bytes
RuneSearchInit ==
    /\ NewHistory /\ NewSearchManager /\ content \in RuneTextInputs
    /\ NewIndentationManager /\ buffer = <<>> /\ NewEditor
    /\ NewConfigManager /\ configFile = NoFile

RuneSearchSpec == RuneSearchInit /\ [][SNext]_vars

\* an IndentationManager under use on the editor's content, next to a History
\* and a SearchManager nobody calls
IndentInit ==
    /\ NewHistory /\ NewSearchManager /\ content = <<>>
    /\ NewIndentationManager /\ buffer \in IndentTextInputs /\ NewEditor
    /\ NewConfigManager /\ configFile = NoFile

IndentSpec == IndentInit /\ [][INext]_vars

ShiftTabSpec == IndentInit /\ [][ShiftTabNext]_vars

\* an Editor under use: NewEditor() makes its History with NewHistory()
EditorInit ==
    /\ NewHistory /\ NewSearchManager /\ content = <<>>
    /\ NewIndentationManager /\ buffer = <<>> /\ NewEditor
    /\ NewConfigManager /\ configFile = NoFile

EditorSpec == EditorInit /\ [][ENext]_vars

\* a ConfigManager under use, whatever file it finds at configPath
ConfigInit ==
    /\ NewHistory /\ NewSearchManager /\ content = <<>>
    /\ NewIndentationManager /\ buffer = <<>> /\ NewEditor
    /\ config = DefaultConfiguration
    /\ cload = [NoLoad EXCEPT !.call = "NewConfigManager"]
    /\ configFile \in {NoFile, MalformedFile} \cup {DocFile(d) : d \in ConfigDocs}

ConfigSpec == ConfigInit /\ [][CNext]_vars

(***************************************************************************)
(* Helpers of the properties.                                              *)
(***************************************************************************)
Min(a, b) == IF a <= b THEN a ELSE b

\* the last n elements of s, in order
LastN(s, n) == [i \in 1..n |-> s[Len(s) - n + i]]

\* a pointer to s[i], nil outside s
At(s, i) == IF i \in 1..Len(s) THEN Ptr(s[i]) ELSE Nil

\* a step that is a call of RecordOperation (the clock advances in no other)
RecordStep == now' = now + 1
SetMaxSizeStep == last'.call = "SetMaxSize"

(***************************************************************************)
(* Properties of the History.                                              *)
(***************************************************************************)

\* C1 (as claimed): after every call of RecordOperation, Undo, Redo, Clear and
\* SetMaxSize, len(undoStack) <= maxSize. Redo pushes without looking at maxSize,
\* so a Redo after SetMaxSize lowered the bound breaks it.
C1_UndoStackWithinMaxSize == Len(undoStack) <= maxSize

\* C4 (as claimed): right after any RecordOperation call returns, redoStack is
\* empty. A call made while the History is disabled returns at once and leaves
\* a non-empty redoStack as it is.
C4_RedoEmptyAfterRecord ==
    last.call = "RecordOperation" => redoStack = <<>>

\* C4 (amended): right after a RecordOperation call made while the History is
\* enabled returns, redoStack is empty, whatever Undo/Redo calls preceded it.
C4_RedoEmptyAfterEnabledRecord ==
    (last.call = "RecordOperation" /\ enabled) => redoStack = <<>>

\* C4 witness: an enabled RecordOperation returned that found redoStack non-empty
C4_Witness ==
    /\ last.call = "RecordOperation"
    /\ enabled
    /\ last.redoBefore > 0
    /\ Len(undoStack) > 0

\* C5: Undo on a non-empty undoStack followed at once by Redo restores both
\* stacks to what they were before the Undo, and Redo returns an operation
\* equal to the one Undo returned.
C5_UndoRedoInverse ==
    snap.at = "redone" =>
        /\ undoStack = snap.undo
        /\ redoStack = snap.redo
        /\ last.ret = snap.ret
        /\ last.ret # Nil

\* C5 witness: Undo then Redo were called on stacks holding several operations
C5_Witness ==
    /\ snap.at = "redone"
    /\ last.call = "Redo"
    /\ Len(snap.undo) >= 2
    /\ Len(snap.redo) >= 1

\* C6: on a fresh History, after k RecordOperation calls and nothing else,
\* GetOperationHistory is the last min(k, maxSize) recorded operations in
\* recording order.
C6_FifoEviction ==
    script.phase = "record" =>
        GetOperationHistory =
            LastN(script.log, Min(Len(script.log), maxSize))

\* C6 witness: more operations were recorded than maxSize allows
C6_Witness ==
    /\ script.phase = "record"
    /\ Len(script.log) > maxSize
    /\ Len(undoStack) >= 2

\* C7: after n <= maxSize RecordOperation calls on a fresh History, the k-th
\* successive Undo returns the k-th last recorded operation, and the j-th Redo
\* after k Undos returns the operations undone, in recording order.
C7_UndoReverseRedoForward ==
    LET n == Len(script.log) IN
    /\ script.phase = "undo" =>
          /\ last.call = "Undo"
          /\ last.ret # Nil
          /\ last.ret = At(script.log, n - script.undone + 1)
    /\ script.phase = "redo" =>
          /\ last.call = "Redo"
          /\ last.ret # Nil
          /\ last.ret = At(script.log, n - script.undone + script.redone)

\* C7 witness: several Undo calls, then several Redo calls
C7_Witness ==
    /\ script.phase = "redo"
    /\ script.undone >= 2
    /\ script.redone >= 2

\* C8: while enabled is false a Record* call leaves undoStack and redoStack
\* unchanged, and no operation dropped this way is ever in either stack.
C8_DisabledRecordDropped ==
    [][ /\ (RecordStep /\ ~enabled) =>
              (undoStack' = undoStack /\ redoStack' = redoStack)
        /\ \A i \in 1..Len(undoStack') : undoStack'[i].Timestamp \notin dropped'
        /\ \A i \in 1..Len(redoStack') : redoStack'[i].Timestamp \notin dropped'
      ]_vars

\* C8 witness: operations were dropped, recording was enabled again and an
\* operation recorded
C8_Witness ==
    /\ dropped # {}
    /\ enabled
    /\ last.call = "RecordOperation"
    /\ Len(undoStack) > last.undoBefore
    /\ last.undoBefore > 0

\* C9: SetMaxSize(n) with n > 0 and len(undoStack) > n leaves on return exactly
\* the last n operations of undoStack, in order, and sets maxSize to n.
C9_SetMaxSizeTrims ==
    [][ (SetMaxSizeStep /\ last'.arg > 0 /\ Len(undoStack) > last'.arg) =>
            /\ maxSize' = last'.arg
            /\ Len(undoStack') = last'.arg
            /\ \A i \in 1..Len(undoStack') :
                  undoStack'[i] = undoStack[Len(undoStack) - Len(undoStack') + i]
            /\ redoStack' = redoStack
      ]_vars

\* C9 witness: SetMaxSize cut a longer undoStack down to several operations
C9_Witness ==
    /\ last.call = "SetMaxSize"
    /\ last.arg >= 2
    /\ last.undoBefore > last.arg
    /\ Len(undoStack) = last.arg

\* C10: SetMaxSize(n) with n <= 0 leaves maxSize, undoStack, redoStack and
\* enabled unchanged, and NewHistoryWithSize(n) with n <= 0 yields maxSize 100.
C10_NonPositiveSizeRejected ==
    /\ (last.call = "NewHistoryWithSize" /\ last.arg <= 0) => maxSize = 100
    /\ [][ (SetMaxSizeStep /\ last'.arg <= 0) =>
              UNCHANGED <<maxSize, undoStack, redoStack, enabled>> ]_vars

\* C10 witness: SetMaxSize(n), n <= 0, returned on a History holding operations
\* under a bound set at construction
C10_Witness ==
    /\ last.call = "SetMaxSize"
    /\ last.arg <= 0
    /\ Len(undoStack) >= 2
    /\ maxSize = 2


\* C11: Undo on an empty undoStack and Redo on an empty redoStack return nil
\* and leave both stacks, maxSize and enabled unchanged.
C11_EmptyUndoRedoReturnNil ==
    [][ /\ (last'.call = "Undo" /\ undoStack = <<>>) =>
              /\ Len(last'.ret) = 0
              /\ UNCHANGED <<undoStack, redoStack, maxSize, enabled>>
        /\ (last'.call = "Redo" /\ redoStack = <<>>) =>
              /\ Len(last'.ret) = 0
              /\ UNCHANGED <<undoStack, redoStack, maxSize, enabled>>
      ]_vars

\* C11 witness: Undo returned on an empty undoStack while redoStack held
\* operations and the History was disabled
C11_Witness ==
    /\ last.call = "Undo"
    /\ last.undoBefore = 0
    /\ last.redoBefore >= 2
    /\ Len(redoStack) >= 2
    /\ ~enabled

\* the timestamps of the operations a stack holds
Stamps(stack) == {stack[i].Timestamp : i \in 1..Len(stack)}

\* C12: Clear empties undoStack and redoStack from any state and leaves enabled
\* and maxSize unchanged; an operation recorded before Clear is never returned
\* by a later Undo or Redo (nor held by a stack again).
C12_ClearForgetsEverything ==
    [][ /\ last'.call = "Clear" =>
              /\ undoStack' = <<>>
              /\ redoStack' = <<>>
              /\ UNCHANGED <<enabled, maxSize>>
        /\ (last'.call \in {"Undo", "Redo"} /\ last'.ret # Nil) =>
              last'.ret[1].Timestamp \notin cleared'
        /\ (Stamps(undoStack') \cup Stamps(redoStack')) \cap cleared' = {}
      ]_vars

\* C12 witness: Clear dropped several operations of a History with a bound set
\* at construction, and a later Undo returned an operation
C12_Witness ==
    /\ Cardinality(cleared) >= 2
    /\ last.call = "Undo"
    /\ last.ret # Nil
    /\ maxSize = 2

(***************************************************************************)
(* Properties of the SearchManager.                                        *)
(***************************************************************************)
\* C13: with wrapAround=true and n >= 1 matches, NextMatch called with
\* currentIndex = n-1 sets currentIndex to 0 and returns match 0, and
\* PreviousMatch called with currentIndex = 0 sets currentIndex to n-1 and
\* returns match n-1.
C13_WrapAroundNavigation ==
    LET n == Len(matches) IN
    (options.WrapAround /\ n >= 1) =>
        /\ (slast.call = "NextMatch" /\ slast.from = n - 1) =>
              /\ currentIndex = 0
              /\ slast.retMatch = <<matches[1]>>
        /\ (slast.call = "PreviousMatch" /\ slast.from = 0) =>
              /\ currentIndex = n - 1
              /\ slast.retMatch = <<matches[n]>>

\* C13 witness: NextMatch wrapped from the last of three matches to the first
C13_Witness ==
    /\ slast.call = "NextMatch"
    /\ options.WrapAround
    /\ Len(matches) = 3
    /\ slast.from = 2
    /\ currentIndex = 0

\* C13 witness of the other direction, kept with it: PreviousMatch wrapped from
\* the first of three matches to the last
C13_WitnessPrevious ==
    /\ slast.call = "PreviousMatch"
    /\ options.WrapAround
    /\ Len(matches) = 3
    /\ slast.from = 0
    /\ currentIndex = 2

\* the last call was a NextMatch or PreviousMatch that, without wrap-around and
\* with matches at hand, stepped past an end
SteppedPastEnd ==
    /\ ~options.WrapAround
    /\ Len(matches) >= 1
    /\ \/ slast.call = "NextMatch" /\ slast.from = Len(matches) - 1
       \/ slast.call = "PreviousMatch" /\ slast.from <= 0

\* C14 (as claimed): with wrapAround=false and n >= 1 matches, a NextMatch or
\* PreviousMatch call that would step past an end returns no match and leaves
\* currentIndex at the value it had before the call, also for PreviousMatch
\* when no match is current. PreviousMatch then clamps the index to 0.
C14_PastEndLeavesIndex ==
    SteppedPastEnd =>
        /\ slast.retMatch = <<>>
        /\ currentIndex = slast.from

\* C14 (amended): such a call returns no match and leaves currentIndex clamped
\* to the end it stepped past: n-1 for NextMatch at the last match, 0 for
\* PreviousMatch at the first match and for PreviousMatch when no match is
\* current.
C14_PastEndClampsIndex ==
    SteppedPastEnd =>
        /\ slast.retMatch = <<>>
        /\ currentIndex = IF slast.call = "NextMatch" THEN Len(matches) - 1 ELSE 0

\* C14 witness: PreviousMatch without wrap-around, no match current, several
\* matches at hand
C14_Witness ==
    /\ SteppedPastEnd
    /\ slast.call = "PreviousMatch"
    /\ slast.from = -1
    /\ Len(matches) >= 2

\* C14 witness of the other end, kept with it: NextMatch at the last of
\* several matches
C14_WitnessNext ==
    /\ SteppedPastEnd
    /\ slast.call = "NextMatch"
    /\ Len(matches) >= 2

\* C15: SetOptions called while a pattern is active leaves the match set empty
\* and currentIndex = -1 and performs no search; the match set stays empty until
\* the next Find (the caller's own, or the one Replace makes for it).
C15_SetOptionsInvalidates ==
    [][ /\ (slast'.call = "SetOptions" /\ currentPattern # <<>>) =>
              /\ matches' = <<>>
              /\ currentIndex' = -1
        /\ (matches = <<>> /\ matches' # <<>>) =>
              slast'.call \in {"Find", "Replace"}
      ]_vars

\* C15 witness: SetOptions returned with a pattern active and no matches, though
\* a search of the last text under the new options would find several
C15_Witness ==
    /\ slast.call = "SetOptions"
    /\ currentPattern # <<>>
    /\ matches = <<>>
    /\ currentIndex = -1
    /\ ~options.RegularExpression
    /\ Len(findLiteral(options, lastSearchText, currentPattern)) >= 2

\* c is an ASCII letter, a digit or '_'
WordCharacter(c) ==
    c \in {"a", "A", "_", "0", "1", "2", "3", "4", "5", "6", "7", "8", "9"}

\* the last and the first bytes of the letters of several bytes that texts hold
\* (U+023A and U+2C65): the character ending, or starting, with such a byte is
\* a letter
LetterLastBytes == {"BA", "A5"}
LetterFirstBytes == {"C8", "E2"}

\* the 0-based columns of line at which pattern (ASCII) occurs, as the options
\* in force compare characters
OccurrencesIn(line, pattern) ==
    {i \in 0..(Len(line) - Len(pattern)) :
        \A k \in 1..Len(pattern) :
            IF options.CaseSensitive THEN line[i + k] = pattern[k]
            ELSE LowerChar(line[i + k]) = LowerChar(pattern[k])}

\* the occurrence of a pattern of n bytes at column i of line stands alone: the
\* characters before and after it are neither letters, digits nor '_'
StandsAlone(line, i, n) ==
    /\ i > 0 => ~(WordCharacter(line[i]) \/ line[i] \in LetterLastBytes)
    /\ i + n < Len(line) =>
          ~(WordCharacter(line[i + n + 1]) \/ line[i + n + 1] \in LetterFirstBytes)

\* the <<line, column>> pairs (1-based) of the occurrences Find is to report
ReportedOccurrences(text, pattern) ==
    LET lines == SplitLines(text)
    IN {x \in (1..Len(lines)) \X (1..(Len(text) + 1)) :
            /\ x[2] - 1 \in OccurrencesIn(lines[x[1]], pattern)
            /\ options.WholeWord =>
                   StandsAlone(lines[x[1]], x[2] - 1, Len(pattern))}

\* C16 (as claimed): in literal mode with wholeWord=true, Find (when it returns)
\* reports an occurrence of the pattern as a match if and only if the characters
\* right before and right after it on its line (if any) are neither letters,
\* digits nor '_'; with wholeWord=false it reports every occurrence. isWholeWord
\* looks at the byte before and the byte after, so a letter of several bytes
\* next to the occurrence goes unnoticed.
C16_WholeWordAcceptance ==
    [][ \A p \in PatternInputs \ {<<>>} :
          (slast'.call = "Find" /\ ~slast'.panic /\ ~options.RegularExpression
                                /\ currentPattern' = p /\ Find(content, p)) =>
              /\ {<<matches'[k].Start.Line, matches'[k].Start.Column>> :
                     k \in 1..Len(matches')} = ReportedOccurrences(content, p)
              /\ Len(matches') = Cardinality(ReportedOccurrences(content, p))
      ]_vars

\* the pattern has nothing to find in the text: it is empty, it is no regular
\* expression, or it occurs nowhere
NothingToFind(text, pattern) ==
    \/ pattern = <<>>
    \/ options.RegularExpression /\ pattern = <<"(">>
    \/ LET lines == SplitLines(text)
       IN \A l \in 1..Len(lines) : OccurrencesIn(lines[l], pattern) = {}

\* C17 (as claimed): no SearchManager operation ever fails (as on a slice out
\* of range): with an empty pattern, a pattern that occurs nowhere or an invalid
\* regular expression Find returns no match and Replace returns its text
\* unchanged with count 0, and SetCurrentMatch with an index out of range
\* returns no match. Find panics on a text whose lower case is longer than
\* the text.
C17_NoFailure ==
    [][ /\ ~slast'.panic
        /\ \A p \in PatternInputs :
              (slast'.call = "Find" /\ Find(content, p)
                  /\ NothingToFind(content, p)) => matches' = <<>>
        /\ \A p \in PatternInputs, r \in ReplacementInputs, all \in BOOLEAN :
              (slast'.call = "Replace" /\ NothingToFind(content, p)
                  /\ Replace(content, p, r,
                             [SearchOptions |-> options, ReplaceAll |-> all])) =>
                  (slast'.retText = content /\ slast'.count = 0)
        /\ (slast'.call = "SetCurrentMatch" /\ slast'.retMatch # <<>>) =>
              currentIndex' \in 0..(Len(matches) - 1)
      ]_vars

\* a step that is the call Replace(content, pattern, replacement, ...) made
\* with the manager's own search options
ReplaceStep(pattern, replacement, all) ==
    Replace(content, pattern, replacement,
            [SearchOptions |-> options, ReplaceAll |-> all])

\* the text with the characters the match m covers replaced by replacement
ReplaceSpan(text, m, replacement) ==
    LET from == AbsoluteStart(SplitLines(text), m.Start)
    IN Slice(text, 0, from) \o replacement \o SliceFrom(text, from + Len(m.Text))

\* the manager holds a current match, found on this text with this pattern
HasCurrentMatch(text, pattern) ==
    /\ currentIndex \in 0..(Len(matches) - 1)
    /\ currentPattern = pattern
    /\ lastSearchText = text

\* C2 (as claimed): Replace with replaceAll=false, called while the manager has
\* a current match at index i from a Find on the same text and pattern, replaces
\* exactly that i-th match, leaves the rest of the text unchanged and returns
\* count 1. Replace sets the options first, which forgets the matches, so the
\* first match is replaced whichever one was current.
C2_ReplaceCurrentReplacesCurrentMatch ==
    [][ \A p \in PatternInputs, r \in ReplacementInputs :
          (HasCurrentMatch(content, p) /\ ReplaceStep(p, r, FALSE)) =>
              /\ slast'.count = 1
              /\ slast'.retText = ReplaceSpan(content, matches[currentIndex + 1], r)
      ]_vars

\* pattern occurs in text at the 0-based offset i, as the options in force
\* compare characters and delimit words
OccursAt(text, i, pattern) ==
    /\ IF options.CaseSensitive THEN HasPrefixAt(text, i, pattern)
       ELSE HasPrefixAt(ToLower(text), i, ToLower(pattern))
    /\ options.WholeWord =>
          /\ i > 0 => ~IsWordChar(text[i])
          /\ i + Len(pattern) < Len(text) => ~IsWordChar(text[i + Len(pattern) + 1])

\* the text from offset i on with every non-overlapping occurrence of pattern,
\* scanned left to right, replaced; and how many there are
RECURSIVE ReplacedFrom(_, _, _, _)
ReplacedFrom(text, i, pattern, replacement) ==
    IF i >= Len(text) THEN <<>>
    ELSE IF OccursAt(text, i, pattern)
    THEN replacement \o ReplacedFrom(text, i + Len(pattern), pattern, replacement)
    ELSE <<text[i + 1]>> \o ReplacedFrom(text, i + 1, pattern, replacement)

RECURSIVE OccurrencesFrom(_, _, _)
OccurrencesFrom(text, i, pattern) ==
    IF i >= Len(text) THEN 0
    ELSE IF OccursAt(text, i, pattern)
    THEN 1 + OccurrencesFrom(text, i + Len(pattern), pattern)
    ELSE OccurrencesFrom(text, i + 1, pattern)

\* C3 (as claimed): Replace with replaceAll=true in literal mode returns, for
\* every text, non-empty pattern and replacement, the text with each
\* non-overlapping occurrence of the pattern (left to right) replaced and all
\* other characters unchanged, and the number of occurrences replaced. The
\* matches replaceAll works from overlap, so it replaces and counts more.
C3_ReplaceAllNonOverlapping ==
    [][ \A p \in PatternInputs \ {<<>>}, r \in ReplacementInputs :
          (~options.RegularExpression /\ ReplaceStep(p, r, TRUE)) =>
              /\ slast'.retText = ReplacedFrom(content, 0, p, r)
              /\ slast'.count = OccurrencesFrom(content, 0, p)
      ]_vars


\* the operations of a stack that carry the text the caller wrote
Written(stack) == {i \in 1..Len(stack) : stack[i].NewText = Modified}

\* C18: GetOperationHistory returns a defensive copy: whatever the caller has
\* written into elements of a returned slice, the write is in neither stack, a
\* fresh GetOperationHistory result is the undo stack as the History's methods
\* left it, and no Undo or Redo result (nor GetLastOperation, the top of the
\* undo stack) carries the write.
C18_DefensiveCopy ==
    /\ Written(undoStack) = {}
    /\ Written(redoStack) = {}
    /\ Written(GetOperationHistory) = {}
    /\ last.ret # Nil => last.ret[1].NewText # Modified

\* the caller wrote into its copy of an operation, and a later Undo returned
\* that operation
C18_Witness ==
    /\ last.call = "Undo"
    /\ last.ret # Nil
    /\ \E i \in Written(returned.ops) :
           returned.ops[i].Timestamp = last.ret[1].Timestamp


\* the lines of text (1-based) that lie in the clamped range [startLine, endLine]
LinesInRange(text, startLine, endLine) ==
    {i \in 1..Len(SplitLines(text)) :
        /\ ClampStart(startLine) <= i - 1
        /\ i - 1 <= ClampEnd(SplitLines(text), endLine)}

\* the line's indentation is a whole number of indent units
WholeUnits(line) ==
    \E k \in 0..Len(line) : GetLineIndentation(line) = Repeat(GetIndentString, k)

\* IndentLines(C, a, b) and then UnindentLines(_, a, b) were the last two calls,
\* on a content C whose lines in [a, b] are indented by whole units
RoundTripOfWholeUnits ==
    /\ trip.stage = "unindented"
    /\ \A i \in LinesInRange(trip.from, trip.startLine, trip.endLine) :
           WholeUnits(SplitLines(trip.from)[i])

\* C19 (as claimed): for every content C, range [a, b] and configuration in
\* which every line of C in [a, b] has no indentation beyond whole units of
\* GetIndentString(), UnindentLines(IndentLines(C, a, b), a, b) = C. A line of
\* whole units and nothing else is not indented but is unindented, so it
\* comes back one unit shorter.
C19_IndentUnindentRoundTrip ==
    RoundTripOfWholeUnits => buffer = trip.from

\* C19 (amended): the same, for the contents whose lines in [a, b] are each
\* empty or hold a character that is not whitespace.
C19_RoundTripOfNonBlankLines ==
    (/\ RoundTripOfWholeUnits
     /\ \A i \in LinesInRange(trip.from, trip.startLine, trip.endLine) :
            \/ SplitLines(trip.from)[i] = <<>>
            \/ ~IsWhitespaceOnly(SplitLines(trip.from)[i]))
        => buffer = trip.from

\* the round trip was made over a range that holds an indented line of text
C19_Witness ==
    /\ RoundTripOfWholeUnits
    /\ \A i \in LinesInRange(trip.from, trip.startLine, trip.endLine) :
           \/ SplitLines(trip.from)[i] = <<>>
           \/ ~IsWhitespaceOnly(SplitLines(trip.from)[i])
    /\ \E i \in LinesInRange(trip.from, trip.startLine, trip.endLine) :
           /\ GetLineIndentation(SplitLines(trip.from)[i]) # <<>>
           /\ ~IsWhitespaceOnly(SplitLines(trip.from)[i])
    /\ \E i \in 1..Len(SplitLines(trip.from)) :
           i \notin LinesInRange(trip.from, trip.startLine, trip.endLine)


\* the line's indentation is k groups of tabSize spaces
SpaceGroups(line, k) == GetLineIndentation(line) = Repeat(<<" ">>, k * tabSize)

\* the line's indentation is k tabs
Tabs(line, k) == GetLineIndentation(line) = Repeat(<<"\t">>, k)

\* ConvertTabsToSpaces(C) and then ConvertSpacesToTabs were the last two calls
ConversionRoundTrip == trip.stage = "tabs"

\* C20 (as claimed): for every content C whose line indentation uses only
\* whole tabSize-space groups, ConvertSpacesToTabs(ConvertTabsToSpaces(C))
\* restores the original leading whitespace of every line of C. The groups
\* come back as tabs.
C20_ConversionRestoresIndentation ==
    (/\ ConversionRoundTrip
     /\ \A i \in 1..Len(SplitLines(trip.from)) :
            \E k \in 0..Len(trip.from) : SpaceGroups(SplitLines(trip.from)[i], k))
        => /\ Len(SplitLines(buffer)) = Len(SplitLines(trip.from))
           /\ \A i \in 1..Len(SplitLines(trip.from)) :
                  GetLineIndentation(SplitLines(buffer)[i])
                      = GetLineIndentation(SplitLines(trip.from)[i])

\* C20 (amended): ConvertSpacesToTabs(ConvertTabsToSpaces(C)) has the lines of
\* C, restores the leading whitespace of every line indented by tabs only, and
\* leaves k tabs on every line indented by k whole tabSize-space groups.
C20_ConversionYieldsTabs ==
    ConversionRoundTrip =>
        /\ Len(SplitLines(buffer)) = Len(SplitLines(trip.from))
        /\ \A i \in 1..Len(SplitLines(trip.from)), k \in 0..Len(trip.from) :
               (\/ Tabs(SplitLines(trip.from)[i], k)
                \/ SpaceGroups(SplitLines(trip.from)[i], k))
                   => Tabs(SplitLines(buffer)[i], k)

\* the conversions were made over a content with a line indented by tabs and
\* a line indented by whole groups of spaces
C20_Witness ==
    /\ ConversionRoundTrip
    /\ \E i \in 1..Len(SplitLines(trip.from)), k \in 1..Len(trip.from) :
           Tabs(SplitLines(trip.from)[i], k)
    /\ \E i \in 1..Len(SplitLines(trip.from)), k \in 1..Len(trip.from) :
           SpaceGroups(SplitLines(trip.from)[i], k)

\* C23 (as claimed): in literal mode the matches Find reports on one line never
\* overlap: of two consecutive matches on the same line, the later one starts
\* at or after the (exclusive) end column of the earlier one. The scan resumes
\* one character after the start of an accepted match, so it does not hold.
C23_LiteralMatchesDisjoint ==
    ~options.RegularExpression =>
        \A i \in 1..(Len(matches) - 1) :
            matches[i].Start.Line = matches[i + 1].Start.Line
                => matches[i + 1].Start.Column >= matches[i].End.Column

\* the type invariant of an Operation: an Insert has no old text, a Delete no
\* new text, a Replace both
WellTyped(op) ==
    /\ op.Type = "Insert" => op.OldText = ""
    /\ op.Type = "Delete" => op.NewText = ""
    /\ op.Type = "Replace" => (op.OldText # "" /\ op.NewText # "")

\* C24 (as claimed): every Operation held in undoStack or redoStack satisfies
\* the type invariant, for every sequence of RecordOperation, RecordInsert,
\* RecordDelete, RecordReplace, Undo and Redo calls. RecordOperation stores
\* what it is handed without looking at it, so it does not hold.
C24_StacksWellTyped ==
    /\ \A i \in 1..Len(undoStack) : WellTyped(undoStack[i])
    /\ \A i \in 1..Len(redoStack) : WellTyped(redoStack[i])

\* match m comes before match n in (line, start column) order
Before(m, n) ==
    \/ m.Start.Line < n.Start.Line
    \/ m.Start.Line = n.Start.Line /\ m.Start.Column < n.Start.Column

\* C25: after Find(text, pattern) the matches it returned (the manager's) are
\* in strictly ascending (line, start column) order and currentIndex is -1,
\* whatever matches and currentIndex the manager held before the call. Stated
\* for every state a Find call leaves, which includes those of a non-empty
\* pattern.
C25_FindAscendingAndReset ==
    (slast.call = "Find" /\ ~slast.panic) =>
        /\ \A i \in 1..(Len(matches) - 1) : Before(matches[i], matches[i + 1])
        /\ currentIndex = -1

\* Find has returned matches on two lines
C25_Witness ==
    /\ slast.call = "Find"
    /\ currentPattern # <<>>
    /\ Len(matches) >= 2
    /\ matches[1].Start.Line # matches[Len(matches)].Start.Line

\* the match m lies inside text and its Text is what text holds there
LiesIn(m, text) ==
    LET lines == SplitLines(text)
    IN /\ m.Start.Line = m.End.Line
       /\ m.Start.Line \in 1..Len(lines)
       /\ m.Start.Column >= 1
       /\ m.Start.Column <= m.End.Column
       /\ m.End.Column - 1 <= Len(lines[m.Start.Line])
       /\ m.Text = Slice(lines[m.Start.Line], m.Start.Column - 1, m.End.Column - 1)

\* C26: after Replace with replaceAll=false returns (newText, 1), the manager's
\* matches are those Find(newText, pattern) yields under the same options, so
\* every stored match lies inside newText and its Text is the characters of
\* newText at its position.
C26_ReplaceCurrentRescans ==
    [][ \A p \in PatternInputs, r \in ReplacementInputs :
          (/\ slast'.call = "Replace"
           /\ slast'.count = 1
           /\ currentPattern' = p
           /\ ReplaceStep(p, r, FALSE)) =>
              /\ matches' = FindF(Sm, slast'.retText, p).matches
              /\ options' = options
              /\ \A i \in 1..Len(matches') : LiesIn(matches'[i], slast'.retText)
      ]_vars

\* a Replace has returned count 1 and a text that still holds matches, which
\* the manager holds as found on that text
C26_Witness ==
    /\ slast.call = "Replace"
    /\ slast.count = 1
    /\ slast.retText = content
    /\ lastSearchText = content
    /\ Len(matches) >= 1

\* C27 (as claimed): in every reachable SearchManager state, after any sequence
\* of Find, SetOptions, NextMatch, PreviousMatch, SetCurrentMatch, Replace and
\* Clear calls, -1 <= currentIndex <= len(matches) - 1; in particular
\* currentIndex = -1 whenever the match set is empty.
C27_CurrentIndexInRange ==
    /\ -1 <= currentIndex
    /\ currentIndex <= Len(matches) - 1

\* the navigation has reached the last of several matches, and from no
\* current match a step back
C27_Witness ==
    /\ Len(matches) >= 2
    /\ \/ slast.call = "NextMatch" /\ currentIndex = Len(matches) - 1
       \/ slast.call = "PreviousMatch" /\ slast.from = -1 /\ ~options.WrapAround

\* C29 (as claimed): removeIndentation(line) returns (newLine, removed) where
\* newLine is line without exactly `removed` leading characters, which are
\* spaces or tabs only, and removed = 0 implies newLine = line; hence
\* HandleShiftTabKey moves a cursor that stood behind the deleted characters
\* back by exactly their number. A tab met after leading spaces is stripped
\* together with them and counted as one character, so it does not hold.
C29_RemovedCountsStripped ==
    trip.stage = "shiftTab" =>
        /\ Len(trip.line) - Len(trip.newLine) = trip.removed
        /\ trip.newLine = SliceFrom(trip.line, Len(trip.line) - Len(trip.newLine))
        /\ \A k \in 1..(Len(trip.line) - Len(trip.newLine)) :
               trip.line[k] \in {" ", "\t"}
        /\ trip.removed = 0 => trip.newLine = trip.line
        /\ trip.cursorPos - trip.removed >= 0 =>
               trip.cursorPos - trip.newCursorPos = Len(trip.from) - Len(buffer)

\* C21: after Editor.NewFile and after a successful Editor.LoadFile the
\* History has empty undo and redo stacks (CanUndo and CanRedo are both
\* false), whatever edits, undos and redos preceded the call.
C21_OpenedFileHasNoHistory ==
    edit.stage = "opened" =>
        /\ undoStack = <<>>
        /\ redoStack = <<>>
        /\ ~CanUndo
        /\ ~CanRedo

\* a file was loaded while both stacks held operations
C21_Witness ==
    /\ edit.call = "LoadFile"
    /\ edit.stage = "opened"
    /\ last.call = "Clear"
    /\ last.undoBefore > 0
    /\ last.redoBefore > 0

\* the same for a new file
C21_WitnessNewFile ==
    /\ edit.call = "NewFile"
    /\ edit.stage = "opened"
    /\ last.call = "Clear"
    /\ last.undoBefore > 0
    /\ last.redoBefore > 0

\* C28 (as claimed): for each of the Editor's edits InsertText, DeleteText and
\* ReplaceText (made while its History records), an Editor.Undo right after it
\* restores the content to what it was before the edit, and an Editor.Redo
\* right after that restores the content the edit had produced. Undoing a
\* ReplaceText appends the old text to the content, so it does not hold.
C28_UndoRedoRestoreContent ==
    /\ edit.stage = "undone" => editorText = edit.before
    /\ edit.stage = "redone" => editorText = edit.after

\* C30 (as claimed): Editor.Undo and Editor.Redo leave the History's enabled
\* flag as it was before the call, so a History disabled with
\* SetEnabled(false) is still disabled after them. An Undo step is the one
\* that moves an operation from the undo stack to the redo stack, a Redo step
\* the one that moves it back. Both end with SetEnabled(true), so it does not
\* hold.
C30_UndoRedoKeepEnabled ==
    [][ (\/ /\ Len(undoStack') = Len(undoStack) - 1
            /\ Len(redoStack') = Len(redoStack) + 1
         \/ /\ Len(redoStack') = Len(redoStack) - 1
            /\ Len(undoStack') = Len(undoStack) + 1)
        => enabled' = enabled ]_vars

\* C22 (as claimed): after a Load that read a well-formed file leaving out some
\* fields, every field the file leaves out holds the value DefaultConfiguration
\* gives it, and every field the file has holds the file's value.
\* mergeWithDefaults fills in seven fields only, and it takes a zero value in
\* the file for a missing one, so it does not hold.
C22_LoadMergesDefaults ==
    (cload.call = "Load" /\ cload.read /\ cload.doc.has # Fields)
        => \A f \in Fields :
              Get(config, f) = IF f \in cload.doc.has
                               THEN Get(cload.doc.val, f)
                               ELSE Get(DefaultConfiguration, f)

====
